---- MODULE Spec2Model ----
(***************************************************************************)
(* Diff Digest: the note-generation orchestrator (route.ts POST), the SSE  *)
(* frame codec, and the client decoder / reducer (page.tsx generateNotes,  *)
(* mergeWithOverlap).                                                      *)
(*                                                                         *)
(* Text is modelled as a sequence of one-character strings, so that the    *)
(* slicing, trimming, escaping and separator search of the code are        *)
(* computed character by character.  An optional JavaScript value is a     *)
(* sequence of length 0 (undefined) or 1 (the value).                      *)
(***************************************************************************)
EXTENDS Integers, Sequences, FiniteSets, TLC

VARIABLES
  \* ---- server: the streaming loop of POST (route.ts)
  relevantPRs,    \* the accepted list, a sequence of item ids
  pc,             \* position of the async streaming loop
  idx,            \* index in relevantPRs of the item being processed
  wire,           \* every character written to the writer, in order
  frames,         \* history: the frames written, in order
  requests,       \* history: the generation requests issued, in order
  genLog,         \* history: the fragments the generation capability delivered
  writerState,    \* "writable" | "errored" | "closed"
  budget,         \* fragments the generation capability may still deliver
  failure,        \* history: the first failed step, <<>> while none has failed
  writerLog,      \* history: the calls made on the writer, "write" or "close"
  \* ---- the request and its response (route.ts POST, before the stream)
  body,           \* the request body, <<>> where the request is not modelled
  status,         \* the status of the Response returned, 0 while none is
  \* ---- client: generateNotes (page.tsx)
  cpc,            \* "reading" | "done"
  pos,            \* characters of wire already read
  buffer,         \* the decode buffer
  notesByPR,      \* Record<string, NoteState>
  error,          \* the component's error state (optional string)
  isGeneratingNotes,
  decoded,        \* history: the payloads JSON.parse returned, in order
  \* ---- reducer driven frame by frame
  applied,        \* history: the payloads applied
  notesHist,      \* history: notesHist[i] is notesByPR before applied[i]
  prevAfter,      \* history: prevAfter[i] is the object passed as prev to the
                  \* updater of applied[i], as it is once the updater returned
  \* ---- mergeWithOverlap driven directly
  mPrev, mFrag, mOut,
  \* ---- pr-filters driven directly
  fltPr,          \* the DiffItem given to isRelevantPR / the diff counted
  fltPrs,         \* the list given to filterPRs
  fltFilter,      \* the PRFilter
  fltVariant,     \* which version of pr-filters is called
  fltOut,         \* the value returned, <<>> before the call
  \* ---- the decoder driven with any response body
  records,        \* history: the records the response body is made of
  \* ---- the page's handlers and its concurrent generateNotes invocations
  isLoading,      \* the component's isLoading state
  nextPage,       \* the component's nextPage state, 0 for null
  closureIds,     \* the ids with notes in the render whose handlers are running
  clicked,        \* the page passed to the fetchDiffs in flight, 0 while none is
  streams,        \* one record for each generateNotes invocation that got a stream
  writes          \* history: the content updates, each with the stream it came from

srvVars ==
  <<relevantPRs, pc, idx, wire, frames, requests, genLog, writerState, budget, failure,
    writerLog>>
reqVars == <<body, status>>
cliVars == <<cpc, pos, buffer, notesByPR, error, isGeneratingNotes, decoded>>
redVars == <<applied, notesHist, prevAfter>>
mrgVars == <<mPrev, mFrag, mOut>>
fltVars == <<fltPr, fltPrs, fltFilter, fltVariant, fltOut>>
decVars == <<records>>
conVars == <<isLoading, nextPage, closureIds, clicked, streams, writes>>
vars == <<srvVars, reqVars, cliVars, redVars, mrgVars, fltVars, decVars, conVars>>

(***************************************************************************)
(* Bounds                                                                  *)
(***************************************************************************)
\* longest string drawn as an input of mergeWithOverlap
MaxLen == 3
\* most frames applied to the reducer in one run
MaxApply == 3
\* most items in the accepted list of a request
MaxItems == 2
\* most fragments the generation capability delivers during one request
MaxFrags == 3
\* the same two bounds where the client's read loop is modelled as well
MaxItemsClient == 1
MaxFragsClient == 2
\* longest chunk the client reads short of everything that has arrived
MaxChunk == 2

Min(a, b) == IF a < b THEN a ELSE b

\* all sequences over S of length at most n
RECURSIVE SeqsUpTo(_, _)
SeqsUpTo(S, n) ==
  IF n = 0 THEN {<<>>}
  ELSE LET shorter == SeqsUpTo(S, n - 1)
       IN shorter \cup {Append(s, c) : s \in {t \in shorter : Len(t) = n - 1}, c \in S}

(***************************************************************************)
(* JavaScript string primitives                                            *)
(***************************************************************************)
\* s.slice(from): from >= 0 counts from the start
SliceFrom(s, from) == SubSeq(s, Min(from, Len(s)) + 1, Len(s))
\* s.slice(0, to)
SliceTo(s, to) == SubSeq(s, 1, Min(to, Len(s)))
\* s.slice(-k), k > 0
SliceLast(s, k) == SubSeq(s, Len(s) - Min(k, Len(s)) + 1, Len(s))

(***************************************************************************)
(* mergeWithOverlap (page.tsx)                                             *)
(***************************************************************************)
\* a loop taking the smallest overlap instead of the largest
MergeLoopAscending(prev, fragment, k) ==
  LET ks == {j \in 1..k : SliceLast(prev, j) = SliceTo(fragment, j)}
  IN IF ks = {} THEN prev \o fragment
     ELSE prev \o SliceFrom(fragment, CHOOSE j \in ks : \A i \in ks : j <= i)

\* the for loop: k from max down to 1, first match wins
RECURSIVE MergeLoop(_, _, _)
MergeLoop(prev, fragment, k) ==
  IF k > 0
  THEN IF SliceLast(prev, k) = SliceTo(fragment, k)
       THEN prev \o SliceFrom(fragment, k)
       ELSE MergeLoop(prev, fragment, k - 1)
  ELSE prev \o fragment

\* the current version: guards the empty operands first
mergeWithOverlap(prev, fragment) ==
  IF prev = <<>> \/ fragment = <<>>
  THEN (IF prev # <<>> THEN prev ELSE fragment)
  ELSE MergeLoop(prev, fragment, Min(Len(prev), Len(fragment)))

\* the earlier version of the page: no guard, the loop alone
mergeWithOverlapV0(prev, fragment) ==
  MergeLoop(prev, fragment, Min(Len(prev), Len(fragment)))

(***************************************************************************)
(* Text constants of the protocol                                          *)
(***************************************************************************)
developer == <<"d","e","v","e","l","o","p","e","r">>
marketing == <<"m","a","r","k","e","t","i","n","g">>
toolsType == <<"t","o","o","l","s">>
\* the property key JavaScript uses for an undefined prId
undefinedKey == <<"u","n","d","e","f","i","n","e","d">>

(***************************************************************************)
(* A decoded payload: the fields the decode loop destructures, each        *)
(* optional.  NoteState: developer, marketing and tools, each optional     *)
(* (a NoteState created by a tools frame has no text fields).              *)
(***************************************************************************)
NoPayload ==
  [prId |-> <<>>, section |-> <<>>, content |-> <<>>, done |-> <<>>,
   type |-> <<>>, tools |-> <<>>, message |-> <<>>]

ContentPayload(id, sec, c) == [NoPayload EXCEPT !.prId = <<id>>, !.section = <<sec>>, !.content = <<c>>]
DonePayload(id, sec) == [NoPayload EXCEPT !.prId = <<id>>, !.section = <<sec>>, !.done = <<TRUE>>]
ToolsPayload(id, t) == [NoPayload EXCEPT !.prId = <<id>>, !.type = <<toolsType>>, !.tools = <<t>>]

EmptyNotes == [k \in {} |-> <<>>]

\* { ...prev, [key]: val }
Spread(prev, key, val) ==
  [k \in DOMAIN prev \cup {key} |-> IF k = key THEN val ELSE prev[k]]

\* notesByPR[id]?.developer / .marketing / .tools
FieldOf(notes, id, f) == IF id \in DOMAIN notes THEN notes[id][f] ELSE <<>>

\* a merge that keeps the fragment alone
MergeFieldReplace(field, content) == content

\* mergeWithOverlap called with a text field that may be undefined: !prev holds
\* for undefined as for "", and the result is fragment || ''
MergeField(field, content) ==
  IF field = <<>> THEN content ELSE mergeWithOverlap(field[1], content)

\* setNotesByPR(prev => ({ ...prev, [prId]: { ...prev[prId], tools } }))
ToolsUpdateNoSpread(prev, key, tools) ==
  Spread(prev, key, [developer |-> <<>>, marketing |-> <<>>, tools |-> tools])

ToolsUpdate(prev, key, tools) ==
  Spread(prev, key,
         [developer |-> FieldOf(prev, key, "developer"),
          marketing |-> FieldOf(prev, key, "marketing"),
          tools |-> tools])

\* setNotesByPR(prev => { const current = prev[prId] ?? {...}; ...; return {...prev, [prId]: current} })
ContentUpdateOverwrite(prev, key, section, content) ==
  LET current == IF key \in DOMAIN prev THEN prev[key]
                 ELSE [developer |-> << <<>> >>, marketing |-> << <<>> >>, tools |-> <<>>]
  IN Spread(prev, key,
            IF section = developer
            THEN [current EXCEPT !.developer = <<content>>]
            ELSE [current EXCEPT !.marketing = <<content>>])

\* a content update that merges the fragment into both channels of the item
ContentUpdateBothChannels(prev, key, section, content) ==
  LET current == IF key \in DOMAIN prev THEN prev[key]
                 ELSE [developer |-> << <<>> >>, marketing |-> << <<>> >>, tools |-> <<>>]
  IN Spread(prev, key,
            [current EXCEPT !.developer = <<MergeField(current.developer, content)>>,
                            !.marketing = <<MergeField(current.marketing, content)>>])

ContentUpdate(prev, key, section, content) ==
  LET current == IF key \in DOMAIN prev THEN prev[key]
                 ELSE [developer |-> << <<>> >>, marketing |-> << <<>> >>, tools |-> <<>>]
  IN Spread(prev, key,
            IF section = developer
            THEN [current EXCEPT !.developer = <<MergeField(current.developer, content)>>]
            ELSE [current EXCEPT !.marketing = <<MergeField(current.marketing, content)>>])

\* the part of the decode loop after JSON.parse: destructuring with the
\* default content = "", then the done / tools / section checks in order
ApplyPayloadNoDoneCheck(notes, p) ==
  LET key == IF p.prId = <<>> THEN undefinedKey ELSE p.prId[1]
      content == IF p.content = <<>> THEN <<>> ELSE p.content[1]
  IN IF p.type = <<toolsType>> /\ p.tools # <<>> THEN ToolsUpdate(notes, key, p.tools)
     ELSE IF p.section = <<>> \/ p.section = << <<>> >> THEN notes
     ELSE ContentUpdate(notes, key, p.section[1], content)

ApplyPayload(notes, p) ==
  LET key == IF p.prId = <<>> THEN undefinedKey ELSE p.prId[1]
      content == IF p.content = <<>> THEN <<>> ELSE p.content[1]
  IN IF p.done = <<TRUE>> THEN notes
     ELSE IF p.type = <<toolsType>> /\ p.tools # <<>> THEN ToolsUpdate(notes, key, p.tools)
     ELSE IF p.section = <<>> \/ p.section = << <<>> >> THEN notes
     ELSE ContentUpdate(notes, key, p.section[1], content)

\* the object passed as prev to the content updater, as it is once the
\* updater has returned: where the item has an entry, current is prev[prId]
\* itself and the assignment to current.developer / current.marketing is
\* made in that object; where it has none, current is a fresh object
ContentUpdatePrev(prev, key, section, content) ==
  IF key \in DOMAIN prev
  THEN IF section = developer
       THEN [prev EXCEPT ![key].developer = <<MergeField(@, content)>>]
       ELSE [prev EXCEPT ![key].marketing = <<MergeField(@, content)>>]
  ELSE prev

\* the state object held before payload p is handled, as it is afterwards:
\* only the content updater assigns to a field of an object it was given
ApplyPayloadPrev(notes, p) ==
  LET key == IF p.prId = <<>> THEN undefinedKey ELSE p.prId[1]
      content == IF p.content = <<>> THEN <<>> ELSE p.content[1]
  IN IF p.done = <<TRUE>> THEN notes
     ELSE IF p.type = <<toolsType>> /\ p.tools # <<>> THEN notes
     ELSE IF p.section = <<>> \/ p.section = << <<>> >> THEN notes
     ELSE ContentUpdatePrev(notes, key, p.section[1], content)

(***************************************************************************)
(* Frame codec, encode side (route.ts send / sendError)                    *)
(***************************************************************************)
NL == "\n"
QUOTE == "\""
BSL == "\\"
SP == " "

key_prId == <<"p","r","I","d">>
key_section == <<"s","e","c","t","i","o","n">>
key_content == <<"c","o","n","t","e","n","t">>
key_done == <<"d","o","n","e">>
key_message == <<"m","e","s","s","a","g","e">>
key_type == <<"t","y","p","e">>
lit_true == <<"t","r","u","e">>
\* "data: " and "event: error\n" of the template strings
dataPrefix == <<"d","a","t","a",":",SP>>
eventErrorLine == <<"e","v","e","n","t",":",SP,"e","r","r","o","r",NL>>
\* "data:" as the decoder looks for it
dataMarker == <<"d","a","t","a",":">>

\* JSON.stringify of a string: quoted, with ", \ and newline escaped
RECURSIVE EscapeChars(_)
EscapeChars(s) ==
  IF s = <<>> THEN <<>>
  ELSE LET c == Head(s)
       IN (IF c = QUOTE THEN <<BSL, QUOTE>>
           ELSE IF c = BSL THEN <<BSL, BSL>>
           ELSE IF c = NL THEN <<BSL, "n">>
           ELSE <<c>>) \o EscapeChars(Tail(s))

StringifyString(s) == <<QUOTE>> \o EscapeChars(s) \o <<QUOTE>>

Member(key, valueText) == StringifyString(key) \o <<":">> \o valueText

\* the members of the object literal, in property order; an absent field
\* writes nothing
MembersOf(p) ==
  (IF p.prId = <<>> THEN <<>> ELSE <<Member(key_prId, StringifyString(p.prId[1]))>>)
  \o (IF p.section = <<>> THEN <<>> ELSE <<Member(key_section, StringifyString(p.section[1]))>>)
  \o (IF p.content = <<>> THEN <<>> ELSE <<Member(key_content, StringifyString(p.content[1]))>>)
  \o (IF p.done = <<>> THEN <<>> ELSE <<Member(key_done, lit_true)>>)
  \o (IF p.message = <<>> THEN <<>> ELSE <<Member(key_message, StringifyString(p.message[1]))>>)

RECURSIVE JoinComma(_)
JoinComma(ms) ==
  IF ms = <<>> THEN <<>>
  ELSE IF Len(ms) = 1 THEN ms[1]
  ELSE ms[1] \o <<",">> \o JoinComma(Tail(ms))

\* JSON.stringify of the frame object
JSONStringify(p) == <<"{">> \o JoinComma(MembersOf(p)) \o <<"}">>

\* `data: ${JSON.stringify({ prId: pr.id, section, ...obj })}\n\n`
SendText(p) == dataPrefix \o JSONStringify(p) \o <<NL, NL>>

\* `event: error\ndata: ${JSON.stringify({ message })}\n\n`
ErrorPayload(message) == [NoPayload EXCEPT !.message = <<message>>]
SendErrorText(message) ==
  eventErrorLine \o dataPrefix \o JSONStringify(ErrorPayload(message)) \o <<NL, NL>>

(***************************************************************************)
(* Frame codec, decode side (page.tsx generateNotes, the read loop)        *)
(***************************************************************************)
Whitespace == {SP, NL}

\* String.prototype.trim
RECURSIVE TrimStart(_)
TrimStart(s) == IF s # <<>> /\ Head(s) \in Whitespace THEN TrimStart(Tail(s)) ELSE s
RECURSIVE TrimEnd(_)
TrimEnd(s) ==
  IF s # <<>> /\ s[Len(s)] \in Whitespace THEN TrimEnd(SubSeq(s, 1, Len(s) - 1)) ELSE s
Trim(s) == TrimEnd(TrimStart(s))

StartsWith(s, prefix) == Len(s) >= Len(prefix) /\ SubSeq(s, 1, Len(prefix)) = prefix

\* buffer.indexOf("\n\n"): 0-based, -1 when absent
IndexOfDblNewline(buf) ==
  LET hits == {i \in 0..(Len(buf) - 2) : buf[i + 1] = NL /\ buf[i + 2] = NL}
  IN IF hits = {} THEN -1 ELSE CHOOSE i \in hits : \A j \in hits : i <= j

ParseFail == [ok |-> FALSE, val |-> <<>>, next |-> 0]

\* the characters of a JSON string from position i (after the opening
\* quote) to its closing quote, unescaped; a raw newline is not allowed
RECURSIVE ParseStringBody(_, _, _)
ParseStringBody(s, i, acc) ==
  IF i > Len(s) THEN ParseFail
  ELSE IF s[i] = QUOTE THEN [ok |-> TRUE, val |-> acc, next |-> i + 1]
  ELSE IF s[i] = NL THEN ParseFail
  ELSE IF s[i] = BSL
       THEN IF i + 1 > Len(s) THEN ParseFail
            ELSE IF s[i + 1] = "n" THEN ParseStringBody(s, i + 2, Append(acc, NL))
            ELSE IF s[i + 1] \in {QUOTE, BSL} THEN ParseStringBody(s, i + 2, Append(acc, s[i + 1]))
            ELSE ParseFail
  ELSE ParseStringBody(s, i + 1, Append(acc, s[i]))

\* a JSON value at position i: a string or true (what the server emits)
ParseValue(s, i) ==
  IF i > Len(s) THEN ParseFail
  ELSE IF s[i] = QUOTE
       THEN LET r == ParseStringBody(s, i + 1, <<>>)
            IN IF r.ok THEN [ok |-> TRUE, val |-> <<"s", r.val>>, next |-> r.next] ELSE ParseFail
  ELSE IF i + 3 <= Len(s) /\ SubSeq(s, i, i + 3) = lit_true
       THEN [ok |-> TRUE, val |-> <<"t", <<>>>>, next |-> i + 4]
  ELSE ParseFail

\* the payload field a member sets; members of other names are not read
SetField(p, key, val) ==
  IF key = key_done THEN [p EXCEPT !.done = IF val[1] = "t" THEN <<TRUE>> ELSE <<val[2]>>]
  ELSE IF val[1] # "s" THEN p
  ELSE IF key = key_prId THEN [p EXCEPT !.prId = <<val[2]>>]
  ELSE IF key = key_section THEN [p EXCEPT !.section = <<val[2]>>]
  ELSE IF key = key_content THEN [p EXCEPT !.content = <<val[2]>>]
  ELSE IF key = key_type THEN [p EXCEPT !.type = <<val[2]>>]
  ELSE IF key = key_message THEN [p EXCEPT !.message = <<val[2]>>]
  ELSE p

\* the members of an object from position i (a key's opening quote) to the
\* closing brace, which must end the text
RECURSIVE ParseMembers(_, _, _)
ParseMembers(s, i, p) ==
  IF i > Len(s) \/ s[i] # QUOTE THEN ParseFail
  ELSE LET k == ParseStringBody(s, i + 1, <<>>)
       IN IF ~k.ok \/ k.next > Len(s) \/ s[k.next] # ":" THEN ParseFail
          ELSE LET v == ParseValue(s, k.next + 1)
               IN IF ~v.ok \/ v.next > Len(s) THEN ParseFail
                  ELSE IF s[v.next] = "," THEN ParseMembers(s, v.next + 1, SetField(p, k.val, v.val))
                  ELSE IF s[v.next] = "}" /\ v.next = Len(s)
                       THEN [ok |-> TRUE, val |-> SetField(p, k.val, v.val), next |-> v.next + 1]
                  ELSE ParseFail

\* JSON.parse(json), on the objects the server can emit: ok is FALSE where
\* JSON.parse throws
JSONParse(json) ==
  IF Len(json) < 2 \/ json[1] # "{" THEN ParseFail
  ELSE IF json = <<"{", "}">> THEN [ok |-> TRUE, val |-> NoPayload, next |-> 3]
  ELSE ParseMembers(json, 2, NoPayload)

\* an inner loop that a payload which does not parse ends (break, not continue)
RECURSIVE ProcessBufferBreaksOnBadJSON(_, _, _)
ProcessBufferBreaksOnBadJSON(buf, notes, dec) ==
  LET dblNewline == IndexOfDblNewline(buf)
  IN IF dblNewline = -1 THEN [buffer |-> buf, notes |-> notes, decoded |-> dec]
     ELSE LET rawEvent == Trim(SliceTo(buf, dblNewline))
              rest == SliceFrom(buf, dblNewline + 2)
              json == Trim(SliceFrom(rawEvent, 5))
              parsed == JSONParse(json)
          IN IF ~StartsWith(rawEvent, dataMarker) THEN ProcessBufferBreaksOnBadJSON(rest, notes, dec)
             ELSE IF json = <<>> THEN ProcessBufferBreaksOnBadJSON(rest, notes, dec)
             ELSE IF ~parsed.ok THEN [buffer |-> rest, notes |-> notes, decoded |-> dec]
             ELSE ProcessBufferBreaksOnBadJSON(rest, ApplyPayload(notes, parsed.val),
                                               Append(dec, parsed.val))

\* the inner while loop: every complete record of the buffer, in order
RECURSIVE ProcessBuffer(_, _, _)
ProcessBuffer(buf, notes, dec) ==
  LET dblNewline == IndexOfDblNewline(buf)
  IN IF dblNewline = -1 THEN [buffer |-> buf, notes |-> notes, decoded |-> dec]
     ELSE LET rawEvent == Trim(SliceTo(buf, dblNewline))
              rest == SliceFrom(buf, dblNewline + 2)
              json == Trim(SliceFrom(rawEvent, 5))
              parsed == JSONParse(json)
          IN IF ~StartsWith(rawEvent, dataMarker) THEN ProcessBuffer(rest, notes, dec)
             ELSE IF json = <<>> THEN ProcessBuffer(rest, notes, dec)
             ELSE IF ~parsed.ok THEN ProcessBuffer(rest, notes, dec)
             ELSE ProcessBuffer(rest, ApplyPayload(notes, parsed.val), Append(dec, parsed.val))

(***************************************************************************)
(* pr-filters: the relevance filter, in its two versions.  The version     *)
(* route.ts imports is src/lib/pr-filters.ts (the conservative one); the   *)
(* permissive one differs in its default policy, in two more rules of      *)
(* isMeaningfulCodeChange and in filterPRs having no cap.                  *)
(***************************************************************************)
UpperCase == <<"A","B","C","D","E","F","G","H","I","J","K","L","M","N","O","P","Q","R","S","T","U","V","W","X","Y","Z">>
LowerCase == <<"a","b","c","d","e","f","g","h","i","j","k","l","m","n","o","p","q","r","s","t","u","v","w","x","y","z">>
ToLowerChar(c) ==
  IF \E i \in 1..Len(UpperCase) : UpperCase[i] = c
  THEN LowerCase[CHOOSE i \in 1..Len(UpperCase) : UpperCase[i] = c]
  ELSE c
\* String.prototype.toLowerCase
ToLowerCase(s) == [i \in 1..Len(s) |-> ToLowerChar(s[i])]

\* String.prototype.includes
Includes(s, sub) == \E i \in 0..(Len(s) - Len(sub)) : SubSeq(s, i + 1, i + Len(sub)) = sub

\* s.split('\n')
RECURSIVE SplitNL(_)
SplitNL(s) ==
  LET hits == {i \in 1..Len(s) : s[i] = NL}
  IN IF hits = {} THEN <<s>>
     ELSE LET i == CHOOSE h \in hits : \A j \in hits : h <= j
          IN <<SubSeq(s, 1, i - 1)>> \o SplitNL(SubSeq(s, i + 1, Len(s)))

\* line.replace(/\s+/g, '')
RemoveWhitespace(s) == SelectSeq(s, LAMBDA c : c \notin Whitespace)

Digits == {"0","1","2","3","4","5","6","7","8","9"}
\* the positions where a run of one or more digits starting at i may end
\* (the position after the run's last digit taken)
DigitRunEnds(s, i) ==
  {j \in (i + 1)..(Len(s) + 1) : \A k \in i..(j - 1) : s[k] \in Digits}

\* line.match(/v\d+\.\d+\.\d+/i)
MatchesVersionNumber(s) ==
  \E i \in 1..Len(s) :
    /\ ToLowerChar(s[i]) = "v"
    /\ \E j \in DigitRunEnds(s, i + 1) :
         /\ j <= Len(s) /\ s[j] = "."
         /\ \E k \in DigitRunEnds(s, j + 1) :
              /\ k <= Len(s) /\ s[k] = "."
              /\ DigitRunEnds(s, k + 1) # {}

word_version == <<"v","e","r","s","i","o","n">>
word_dependencies == <<"d","e","p","e","n","d","e","n","c","i","e","s">>
word_devDependencies == <<"d","e","v","d","e","p","e","n","d","e","n","c","i","e","s">>
word_peerDependencies == <<"p","e","e","r","d","e","p","e","n","d","e","n","c","i","e","s">>
lineComment == <<"/","/">>
blockComment == <<"/","*">>
plus == <<"+">>
minus == <<"-">>

\* DEFAULT_FILTERS of src/lib/pr-filters.ts
DEFAULT_FILTERS ==
  [minDiffSize |-> 10,
   minCodeChanges |-> 3,
   excludePatterns |->
     <<<<"d","o","c","s">>, <<"t","y","p","o","s">>,
       <<"f","o","r","m","a","t","t","i","n","g">>, <<"c","h","o","r","e">>,
       <<"s","t","y","l","e">>, <<"l","i","n","t">>, <<"b","u","m","p">>,
       <<"u","p","d","a","t","e">>, <<"d","e","p","s">>,
       <<"d","e","p","e","n","d","e","n","c","y">>,
       <<"v","e","r","s","i","o","n">>>>,
   excludeLabels |->
     <<<<"d","o","c","u","m","e","n","t","a","t","i","o","n">>,
       <<"c","h","o","r","e">>, <<"s","t","y","l","e">>,
       <<"d","e","p","e","n","d","e","n","c","i","e","s">>,
       <<"m","a","i","n","t","e","n","a","n","c","e">>,
       <<"h","o","u","s","e","k","e","e","p","i","n","g">>>>,
   includeLabels |->
     <<<<"f","e","a","t","u","r","e">>,
       <<"e","n","h","a","n","c","e","m","e","n","t">>,
       <<"b","u","g","f","i","x">>, <<"f","i","x">>,
       <<"p","e","r","f","o","r","m","a","n","c","e">>,
       <<"s","e","c","u","r","i","t","y">>,
       <<"r","e","f","a","c","t","o","r">>>>]

\* DEFAULT_FILTERS of the permissive version
DEFAULT_FILTERS_permissive ==
  [minDiffSize |-> 4,
   minCodeChanges |-> 2,
   excludePatterns |->
     <<<<"t","y","p","o","s">>, <<"f","o","r","m","a","t","t","i","n","g">>,
       <<"s","t","y","l","e">>, <<"l","i","n","t">>, <<"b","u","m","p">>,
       <<"u","p","d","a","t","e">>, <<"d","e","p","s">>,
       <<"d","e","p","e","n","d","e","n","c","y">>,
       <<"v","e","r","s","i","o","n">>, <<"c","h","o","r","e">>,
       <<"d","o","c","s">>, <<"t","e","s","t">>, <<"c","i">>,
       <<"b","u","i","l","d">>, <<"m","i","n","o","r">>,
       <<"p","a","t","c","h">>, <<"t","r","i","v","i","a","l">>,
       <<"c","l","e","a","n","u","p">>>>,
   excludeLabels |->
     <<<<"d","o","c","u","m","e","n","t","a","t","i","o","n">>,
       <<"c","h","o","r","e">>, <<"s","t","y","l","e">>,
       <<"d","e","p","e","n","d","e","n","c","i","e","s">>,
       <<"m","a","i","n","t","e","n","a","n","c","e">>,
       <<"h","o","u","s","e","k","e","e","p","i","n","g">>,
       <<"t","e","s","t","s">>, <<"c","i">>, <<"b","u","i","l","d">>,
       <<"m","i","n","o","r">>, <<"p","a","t","c","h">>,
       <<"t","r","i","v","i","a","l">>>>,
   includeLabels |->
     <<<<"f","e","a","t","u","r","e">>,
       <<"e","n","h","a","n","c","e","m","e","n","t">>,
       <<"b","u","g","f","i","x">>, <<"f","i","x">>,
       <<"p","e","r","f","o","r","m","a","n","c","e">>,
       <<"s","e","c","u","r","i","t","y">>,
       <<"r","e","f","a","c","t","o","r">>,
       <<"b","r","e","a","k","i","n","g">>, <<"r","e","l","e","a","s","e">>>>]

\* a version without the pure-formatting rule
isMeaningfulCodeChangeNoStrip(line) ==
  IF Trim(line) = <<>> \/ StartsWith(Trim(line), lineComment)
     \/ StartsWith(Trim(line), blockComment)
  THEN FALSE
  ELSE TRUE

\* isMeaningfulCodeChange of src/lib/pr-filters.ts: the tests are made on the
\* line as the diff holds it, its leading + or - included
isMeaningfulCodeChange(line) ==
  IF Trim(line) = <<>> \/ StartsWith(Trim(line), lineComment)
     \/ StartsWith(Trim(line), blockComment)
  THEN FALSE
  ELSE IF RemoveWhitespace(line) = plus \/ RemoveWhitespace(line) = minus
  THEN FALSE
  ELSE TRUE

\* isMeaningfulCodeChange of the permissive version: two more rules
isMeaningfulCodeChange_permissive(line) ==
  IF ~isMeaningfulCodeChange(line) THEN FALSE
  ELSE IF Includes(ToLowerCase(line), word_version) \/ MatchesVersionNumber(line)
  THEN FALSE
  ELSE IF \/ Includes(ToLowerCase(line), word_dependencies)
          \/ Includes(ToLowerCase(line), word_devDependencies)
          \/ Includes(ToLowerCase(line), word_peerDependencies)
  THEN FALSE
  ELSE TRUE

\* line => line.startsWith('+') || line.startsWith('-')
IsChangedLine(line) == StartsWith(line, plus) \/ StartsWith(line, minus)

countMeaningfulChanges(diff) ==
  Len(SelectSeq(SelectSeq(SplitNL(diff), IsChangedLine), isMeaningfulCodeChange))

countMeaningfulChanges_permissive(diff) ==
  Len(SelectSeq(SelectSeq(SplitNL(diff), IsChangedLine), isMeaningfulCodeChange_permissive))

\* entries.some(e => text.toLowerCase().includes(e.toLowerCase()))
SomeEntryIn(entries, text) ==
  \E i \in 1..Len(entries) : Includes(ToLowerCase(text), ToLowerCase(entries[i]))

\* the decision rule, in the order of the code; meaningfulChanges is what the
\* version's countMeaningfulChanges returns for pr.diff
RelevantBy(pr, filter, meaningfulChanges) ==
  IF SomeEntryIn(filter.excludePatterns, pr.description) THEN FALSE
  ELSE IF Len(SplitNL(pr.diff)) < filter.minDiffSize THEN FALSE
  ELSE IF meaningfulChanges < filter.minCodeChanges THEN FALSE
  ELSE IF SomeEntryIn(filter.excludeLabels, pr.description) THEN FALSE
  ELSE IF Len(filter.includeLabels) > 0 /\ ~SomeEntryIn(filter.includeLabels, pr.description)
  THEN FALSE
  ELSE TRUE

\* a rule that does not look at excludeLabels
isRelevantPRIgnoresExcludeLabels(pr, filter) ==
  RelevantBy(pr, [filter EXCEPT !.excludeLabels = <<>>], countMeaningfulChanges(pr.diff))

isRelevantPR(pr, filter) == RelevantBy(pr, filter, countMeaningfulChanges(pr.diff))

isRelevantPR_permissive(pr, filter) ==
  RelevantBy(pr, filter, countMeaningfulChanges_permissive(pr.diff))

\* a filter without the cap
filterPRsUncapped(prs, filter) ==
  SelectSeq(prs, LAMBDA pr : isRelevantPR(pr, filter))

\* filterPRs of src/lib/pr-filters.ts: filter, then slice(0, 5)
filterPRs(prs, filter) ==
  SliceTo(SelectSeq(prs, LAMBDA pr : isRelevantPR(pr, filter)), 5)

\* filterPRs of the permissive version: filter alone
filterPRs_permissive(prs, filter) ==
  SelectSeq(prs, LAMBDA pr : isRelevantPR_permissive(pr, filter))

Variants == {"conservative", "permissive"}

\* items for the lists given to filterPRs: ids, descriptions and diffs
PrIdChars == <<"1", "2", "3", "4", "5", "6", "7", "8", "9">>
desc_fix == <<"f", "i", "x">>
desc_docs == <<"d", "o", "c", "s">>
\* ten lines, three of them changed
diffTenLines ==
  <<"+", "a", NL, "-", "a", NL, "+", "b", NL, NL, NL, NL, NL, NL, NL>>
\* four lines, two of them changed
diffFourLines == <<"+", "a", NL, "-", "a", NL, NL>>

(***************************************************************************)
(* The streaming loop of POST (route.ts)                                   *)
(***************************************************************************)
\* `Error processing PR ${pr.id}: ${message}`
errorProcessingPR == <<"E","r","r","o","r",SP,"p","r","o","c","e","s","s","i","n","g",SP,"P","R",SP>>
internalErrorMessage ==
  <<"I","n","t","e","r","n","a","l",SP,"e","r","r","o","r",SP,"w","h","i","l","e",SP,"g","e","n","e","r","a","t","i","n","g",SP,"n","o","t","e","s",".",SP,"P","l","e","a","s","e",SP,"r","e","t","r","y",".">>
\* the message of the error a failed step throws
thrownMessage == <<"E">>
ItemErrorMessage(id) == errorProcessingPR \o id \o <<":", SP>> \o thrownMessage

\* item ids, by position in the accepted list
ItemIds == <<<<"1">>, <<"2">>, <<"3">>>>
\* the contents a delivered chunk may carry; the empty one is a chunk
\* whose delta has no content
Fragments == {<<>>, <<"a">>, <<QUOTE, BSL, NL, NL>>}

\* await writer.write(encoder.encode(text)): resolves while the stream is
\* writable, rejects once the consumer has cancelled it
CanWrite == writerState = "writable"

\* the effect of a write that resolves
Written(text, p) ==
  /\ wire' = wire \o text
  /\ frames' = Append(frames, [item |-> idx, p |-> p])

\* writer.write is called, whether it resolves or rejects
WriteCalled == writerLog' = Append(writerLog, "write")

Fails(step) ==
  failure' = IF failure = <<>> THEN <<[item |-> idx, step |-> step]>> ELSE failure

\* send(section, obj) followed by the step that comes next: to pc `ok` when
\* the write resolves, to the inner catch when it rejects
Send(p, ok) ==
  /\ WriteCalled
  /\ IF CanWrite
     THEN /\ Written(SendText(p), p) /\ pc' = ok /\ UNCHANGED failure
     ELSE /\ pc' = "innerCatch" /\ Fails("write") /\ UNCHANGED <<wire, frames>>

CurrentId == relevantPRs[idx]

\* a loop that goes on to the next item when the developer request fails
RequestDeveloperSkipsOnFailure ==
  /\ pc = "loop" /\ idx <= Len(relevantPRs)
  /\ requests' = Append(requests, [item |-> idx, section |-> developer, at |-> Len(frames)])
  /\ \/ pc' = "devOpen" /\ UNCHANGED <<failure, idx>>
     \/ pc' = "loop" /\ idx' = idx + 1 /\ Fails("devRequest")
  /\ UNCHANGED <<relevantPRs, wire, frames, genLog, writerState, budget>>
  /\ UNCHANGED writerLog
  /\ UNCHANGED <<reqVars, cliVars, redVars, mrgVars, fltVars, decVars, conVars>>

\* an iteration that asks for both channels of the item at its start
RequestDeveloperWithMarketing ==
  /\ pc = "loop" /\ idx <= Len(relevantPRs)
  /\ requests' = requests \o <<[item |-> idx, section |-> developer, at |-> Len(frames)],
                               [item |-> idx, section |-> marketing, at |-> Len(frames)]>>
  /\ \/ pc' = "devOpen" /\ UNCHANGED failure
     \/ pc' = "outerCatch" /\ Fails("devRequest")
  /\ UNCHANGED <<relevantPRs, idx, wire, frames, genLog, writerState, budget>>
  /\ UNCHANGED writerLog
  /\ UNCHANGED <<reqVars, cliVars, redVars, mrgVars, fltVars, decVars, conVars>>

\* for (const pr of relevantPRs): the next item, its developer request
\* (lines 41-66, outside the inner try)
RequestDeveloper ==
  /\ pc = "loop" /\ idx <= Len(relevantPRs)
  /\ requests' = Append(requests, [item |-> idx, section |-> developer, at |-> Len(frames)])
  /\ \/ pc' = "devOpen" /\ UNCHANGED failure
     \/ pc' = "outerCatch" /\ Fails("devRequest")
  /\ UNCHANGED <<relevantPRs, idx, wire, frames, genLog, writerState, budget>>
  /\ UNCHANGED writerLog
  /\ UNCHANGED <<reqVars, cliVars, redVars, mrgVars, fltVars, decVars, conVars>>

\* await send("developer", { content: "" })
SendDeveloperOpen ==
  /\ pc = "devOpen"
  /\ Send(ContentPayload(CurrentId, developer, <<>>), "devStream")
  /\ UNCHANGED <<relevantPRs, idx, requests, genLog, writerState, budget>>
  /\ UNCHANGED <<reqVars, cliVars, redVars, mrgVars, fltVars, decVars, conVars>>

\* an iteration that sends the fragment before the one just delivered again
\* when there is one, and the delivered one otherwise
StreamChunkRepeatsPrevious(section, here) ==
  /\ budget > 0
  /\ \E c \in Fragments :
       /\ genLog' = Append(genLog, [item |-> idx, section |-> section, content |-> c])
       /\ LET earlier == SelectSeq(genLog, LAMBDA g : g.item = idx /\ g.section = section
                                                     /\ g.content # <<>>)
              sent == IF earlier = <<>> THEN c ELSE earlier[Len(earlier)].content
          IN IF c # <<>>
             THEN Send(ContentPayload(CurrentId, section, sent), here)
             ELSE UNCHANGED <<pc, wire, frames, failure, writerLog>>
  /\ budget' = budget - 1
  /\ UNCHANGED <<relevantPRs, idx, requests, writerState>>

\* one iteration of for await (const chunk of stream): the chunk's content
\* is sent when it is not empty
StreamChunk(section, here) ==
  /\ budget > 0
  /\ \E c \in Fragments :
       /\ genLog' = Append(genLog, [item |-> idx, section |-> section, content |-> c])
       /\ IF c # <<>>
          THEN Send(ContentPayload(CurrentId, section, c), here)
          ELSE UNCHANGED <<pc, wire, frames, failure, writerLog>>
  /\ budget' = budget - 1
  /\ UNCHANGED <<relevantPRs, idx, requests, writerState>>

\* the stream throws while being iterated
StreamThrows ==
  /\ pc' = "innerCatch" /\ Fails("stream")
  /\ UNCHANGED writerLog
  /\ UNCHANGED <<relevantPRs, idx, wire, frames, requests, genLog, writerState, budget>>

DeveloperChunk ==
  /\ pc = "devStream"
  /\ StreamChunk(developer, "devStream")
  /\ UNCHANGED <<reqVars, cliVars, redVars, mrgVars, fltVars, decVars, conVars>>
DeveloperStreamThrows ==
  /\ pc = "devStream"
  /\ StreamThrows
  /\ UNCHANGED <<reqVars, cliVars, redVars, mrgVars, fltVars, decVars, conVars>>

\* a completion frame that names the other channel
SendDeveloperDoneWrongSection ==
  /\ pc = "devStream"
  /\ Send(DonePayload(CurrentId, marketing), "mktRequest")
  /\ UNCHANGED <<relevantPRs, idx, requests, genLog, writerState, budget>>
  /\ UNCHANGED <<reqVars, cliVars, redVars, mrgVars, fltVars, decVars, conVars>>

\* the developer stream is exhausted: await send("developer", { done: true })
SendDeveloperDone ==
  /\ pc = "devStream"
  /\ Send(DonePayload(CurrentId, developer), "mktRequest")
  /\ UNCHANGED <<relevantPRs, idx, requests, genLog, writerState, budget>>
  /\ UNCHANGED <<reqVars, cliVars, redVars, mrgVars, fltVars, decVars, conVars>>

\* a marketing request that is made again when it fails
RequestMarketingRetries ==
  /\ pc = "mktRequest"
  /\ requests' = Append(requests, [item |-> idx, section |-> marketing, at |-> Len(frames)])
  /\ \/ pc' = "mktOpen" /\ UNCHANGED failure
     \/ pc' = (IF failure = <<>> THEN "mktRequest" ELSE "innerCatch") /\ Fails("mktRequest")
  /\ UNCHANGED <<relevantPRs, idx, wire, frames, genLog, writerState, budget>>
  /\ UNCHANGED writerLog
  /\ UNCHANGED <<reqVars, cliVars, redVars, mrgVars, fltVars, decVars, conVars>>

\* the marketing request (lines 93-117, inside the inner try)
RequestMarketing ==
  /\ pc = "mktRequest"
  /\ requests' = Append(requests, [item |-> idx, section |-> marketing, at |-> Len(frames)])
  /\ \/ pc' = "mktOpen" /\ UNCHANGED failure
     \/ pc' = "innerCatch" /\ Fails("mktRequest")
  /\ UNCHANGED <<relevantPRs, idx, wire, frames, genLog, writerState, budget>>
  /\ UNCHANGED writerLog
  /\ UNCHANGED <<reqVars, cliVars, redVars, mrgVars, fltVars, decVars, conVars>>

\* await send("marketing", { content: "" })
SendMarketingOpen ==
  /\ pc = "mktOpen"
  /\ Send(ContentPayload(CurrentId, marketing, <<>>), "mktStream")
  /\ UNCHANGED <<relevantPRs, idx, requests, genLog, writerState, budget>>
  /\ UNCHANGED <<reqVars, cliVars, redVars, mrgVars, fltVars, decVars, conVars>>

MarketingChunk ==
  /\ pc = "mktStream"
  /\ StreamChunk(marketing, "mktStream")
  /\ UNCHANGED <<reqVars, cliVars, redVars, mrgVars, fltVars, decVars, conVars>>
MarketingStreamThrows ==
  /\ pc = "mktStream"
  /\ StreamThrows
  /\ UNCHANGED <<reqVars, cliVars, redVars, mrgVars, fltVars, decVars, conVars>>

\* the marketing stream is exhausted: await send("marketing", { done: true }),
\* then the next iteration of the for loop
SendMarketingDone ==
  /\ pc = "mktStream"
  /\ WriteCalled
  /\ IF CanWrite
     THEN /\ Written(SendText(DonePayload(CurrentId, marketing)), DonePayload(CurrentId, marketing))
          /\ pc' = "loop" /\ idx' = idx + 1 /\ UNCHANGED failure
     ELSE /\ pc' = "innerCatch" /\ Fails("write") /\ UNCHANGED <<wire, frames, idx>>
  /\ UNCHANGED <<relevantPRs, requests, genLog, writerState, budget>>
  /\ UNCHANGED <<reqVars, cliVars, redVars, mrgVars, fltVars, decVars, conVars>>

\* await sendError(message): the frame is written when the write resolves;
\* when it rejects the rejection leaves the catch block
SendError(message) ==
  /\ WriteCalled
  /\ IF CanWrite
     THEN Written(SendErrorText(message), ErrorPayload(message))
     ELSE UNCHANGED <<wire, frames>>

\* a catch that reports the item and goes on with the next one
InnerCatchContinues ==
  /\ pc = "innerCatch"
  /\ SendError(ItemErrorMessage(CurrentId))
  /\ pc' = "loop" /\ idx' = idx + 1
  /\ UNCHANGED <<relevantPRs, requests, genLog, writerState, budget, failure>>
  /\ UNCHANGED <<reqVars, cliVars, redVars, mrgVars, fltVars, decVars, conVars>>

\* catch (prError): sendError with the item's id, then throw prError
InnerCatch ==
  /\ pc = "innerCatch"
  /\ SendError(ItemErrorMessage(CurrentId))
  /\ pc' = "outerCatch"
  /\ UNCHANGED <<relevantPRs, idx, requests, genLog, writerState, budget, failure>>
  /\ UNCHANGED <<reqVars, cliVars, redVars, mrgVars, fltVars, decVars, conVars>>

\* catch (err): sendError with the fixed message
OuterCatch ==
  /\ pc = "outerCatch"
  /\ SendError(internalErrorMessage)
  /\ pc' = "finally"
  /\ UNCHANGED <<relevantPRs, idx, requests, genLog, writerState, budget, failure>>
  /\ UNCHANGED <<reqVars, cliVars, redVars, mrgVars, fltVars, decVars, conVars>>

\* a loop end that leaves the async function without the finally block
LoopEndsWithoutFinally ==
  /\ pc = "loop" /\ idx > Len(relevantPRs)
  /\ pc' = "done"
  /\ UNCHANGED <<relevantPRs, idx, wire, frames, requests, genLog, writerState, budget, failure>>
  /\ UNCHANGED writerLog
  /\ UNCHANGED <<reqVars, cliVars, redVars, mrgVars, fltVars, decVars, conVars>>

\* the for loop ends after the last item
LoopEnds ==
  /\ pc = "loop" /\ idx > Len(relevantPRs)
  /\ pc' = "finally"
  /\ UNCHANGED <<relevantPRs, idx, wire, frames, requests, genLog, writerState, budget, failure>>
  /\ UNCHANGED writerLog
  /\ UNCHANGED <<reqVars, cliVars, redVars, mrgVars, fltVars, decVars, conVars>>

\* a cleanup that closes the writer only while it is writable
FinallySkipsBrokenWriter ==
  /\ pc = "finally"
  /\ pc' = "done"
  /\ writerState' = IF writerState = "writable" THEN "closed" ELSE writerState
  /\ writerLog' = IF writerState = "writable" THEN Append(writerLog, "close") ELSE writerLog
  /\ UNCHANGED <<relevantPRs, idx, wire, frames, requests, genLog, budget, failure>>
  /\ UNCHANGED <<reqVars, cliVars, redVars, mrgVars, fltVars, decVars, conVars>>

\* finally { await writer.close() }
Finally ==
  /\ pc = "finally"
  /\ pc' = "done"
  /\ writerState' = IF writerState = "writable" THEN "closed" ELSE writerState
  /\ writerLog' = Append(writerLog, "close")
  /\ UNCHANGED <<relevantPRs, idx, wire, frames, requests, genLog, budget, failure>>
  /\ UNCHANGED <<reqVars, cliVars, redVars, mrgVars, fltVars, decVars, conVars>>

\* the consumer goes away: the stream is cancelled and every later write rejects
ConsumerCancels ==
  /\ pc # "done" /\ writerState = "writable"
  /\ writerState' = "errored"
  /\ UNCHANGED <<relevantPRs, pc, idx, wire, frames, requests, genLog, budget, failure>>
  /\ UNCHANGED writerLog
  /\ UNCHANGED <<reqVars, cliVars, redVars, mrgVars, fltVars, decVars, conVars>>

ServerStep ==
  \/ RequestDeveloper \/ SendDeveloperOpen \/ DeveloperChunk \/ DeveloperStreamThrows
  \/ SendDeveloperDone \/ RequestMarketing \/ SendMarketingOpen \/ MarketingChunk
  \/ MarketingStreamThrows \/ SendMarketingDone \/ InnerCatch \/ OuterCatch
  \/ LoopEnds \/ Finally \/ ConsumerCancels

\* the state when POST has started the loop and returned the Response
InitServer(maxItems, frags) ==
  /\ \E n \in 1..maxItems : relevantPRs = SubSeq(ItemIds, 1, n)
  /\ pc = "loop" /\ idx = 1 /\ wire = <<>> /\ frames = <<>>
  /\ requests = <<>> /\ genLog = <<>> /\ writerState = "writable"
  /\ budget = frags /\ failure = <<>> /\ writerLog = <<>>

(***************************************************************************)
(* POST before the stream (route.ts lines 10-28 and 148-154): the body is  *)
(* read, the list is filtered, and either a JSON response is returned or   *)
(* the stream is created and the loop started                              *)
(***************************************************************************)
\* most elements of the diffs array of a request body
MaxBodyItems == 2

\* an element of the diffs array that is not a DiffItem (null, a number, an
\* object without a description)
NotAnItem == [isItem |-> FALSE]
\* a diffs value: an array with its elements, or a value that is not an array
ArrayOf(elems) == [isArray |-> TRUE, elems |-> elems]
NotAnArray == [isArray |-> FALSE, elems |-> <<>>]

BodyKinds ==
  {[isItem |-> TRUE, description |-> desc_fix, diff |-> diffTenLines],
   [isItem |-> TRUE, description |-> desc_docs, diff |-> diffTenLines],
   NotAnItem}

\* the arrays of n elements: the i-th is a DiffItem with the i-th id, or is
\* not a DiffItem
BodyLists(n) ==
  {[i \in 1..n |-> IF ~ks[i].isItem THEN NotAnItem
                   ELSE [isItem |-> TRUE, id |-> <<PrIdChars[i]>>,
                         description |-> ks[i].description, diff |-> ks[i].diff]] :
     ks \in [1..n -> BodyKinds]}

\* what request.json() gives: it rejects ("unparseable"), resolves to null, or
\* resolves to a value whose diffs property is absent (<<>>) or present
Bodies ==
  {[kind |-> "unparseable", diffs |-> <<>>], [kind |-> "null", diffs |-> <<>>]}
  \cup {[kind |-> "json", diffs |-> d] :
          d \in {<<>>, <<NotAnArray>>}
                \cup {<<ArrayOf(l)>> : l \in UNION {BodyLists(n) : n \in 0..MaxBodyItems}}}

\* request.json() rejects, or destructuring its null result throws: both
\* inside the inner try
JsonThrows == body[1].kind \in {"unparseable", "null"}

\* filterPRs(diffs, DEFAULT_FILTERS) throws: diffs is undefined or has no
\* filter method, or isRelevantPR reads the description of an element that
\* has none
FilterThrows ==
  IF body[1].diffs = <<>> THEN TRUE
  ELSE IF ~body[1].diffs[1].isArray THEN TRUE
  ELSE \E i \in 1..Len(body[1].diffs[1].elems) : ~body[1].diffs[1].elems[i].isItem

Responds(code) ==
  /\ status' = code /\ pc' = "responded"
  /\ UNCHANGED <<relevantPRs, idx, wire, frames, requests, genLog, writerState, budget,
                 failure, writerLog, body>>
  /\ UNCHANGED <<cliVars, redVars, mrgVars, fltVars, decVars, conVars>>

\* catch { return NextResponse.json({ error: "Invalid request body" }, { status: 400 }) }
RespondInvalidBody ==
  /\ pc = "request" /\ JsonThrows
  /\ Responds(400)

\* catch (error) { ... { status: 500 } }: the outer catch of POST
RespondInternalError ==
  /\ pc = "request" /\ ~JsonThrows /\ FilterThrows
  /\ Responds(500)

\* if (relevantPRs.length === 0) return ... { status: 400 }
RespondNoRelevantPRs ==
  /\ pc = "request" /\ ~JsonThrows /\ ~FilterThrows
  /\ filterPRs(body[1].diffs[1].elems, DEFAULT_FILTERS) = <<>>
  /\ Responds(400)

\* the stream and its writer are created, the loop is started and the
\* Response carrying the readable side is returned
StartStream ==
  /\ pc = "request" /\ ~JsonThrows /\ ~FilterThrows
  /\ LET rel == filterPRs(body[1].diffs[1].elems, DEFAULT_FILTERS)
     IN /\ rel # <<>>
        /\ relevantPRs' = [i \in 1..Len(rel) |-> rel[i].id]
  /\ status' = 200 /\ pc' = "loop" /\ idx' = 1 /\ writerState' = "writable"
  /\ UNCHANGED <<wire, frames, requests, genLog, budget, failure, writerLog, body>>
  /\ UNCHANGED <<cliVars, redVars, mrgVars, fltVars, decVars, conVars>>

RequestStep ==
  \/ RespondInvalidBody \/ RespondInternalError \/ RespondNoRelevantPRs \/ StartStream

\* POST is called with a body; nothing exists yet
InitRequest ==
  /\ \E b \in Bodies : body = <<b>>
  /\ status = 0 /\ pc = "request"
  /\ relevantPRs = <<>> /\ idx = 0 /\ wire = <<>> /\ frames = <<>>
  /\ requests = <<>> /\ genLog = <<>> /\ writerState = "none"
  /\ budget = MaxFrags /\ failure = <<>> /\ writerLog = <<>>

(***************************************************************************)
(* generateNotes (page.tsx): the read loop over the response body          *)
(***************************************************************************)
\* the message of the error a rejected reader.read() throws
readErrorMessage == <<"R">>

\* the lengths a chunk returned by reader.read() may have: up to MaxChunk
\* characters, or everything that has arrived and is not yet read
ChunkLengths == (1..Min(MaxChunk, Len(wire) - pos)) \cup {Len(wire) - pos}

\* an iteration that handles the records of the buffer before the chunk is
\* appended to it
ClientReadDefers ==
  /\ cpc = "reading" /\ pc = "done" /\ writerState # "errored" /\ pos < Len(wire)
  /\ \E n \in ChunkLengths :
       LET r == ProcessBuffer(buffer, notesByPR, decoded)
       IN /\ pos' = pos + n
          /\ buffer' = r.buffer \o SubSeq(wire, pos + 1, pos + n)
          /\ notesByPR' = r.notes
          /\ decoded' = r.decoded
  /\ UNCHANGED <<cpc, error, isGeneratingNotes>>
  /\ UNCHANGED <<srvVars, reqVars, redVars, mrgVars, fltVars, decVars, conVars>>

\* one iteration of while (true) with done false: the chunk is appended to
\* the buffer and every complete record of the buffer is handled
ClientRead ==
  /\ cpc = "reading" /\ pc = "done" /\ writerState # "errored" /\ pos < Len(wire)
  /\ \E n \in ChunkLengths :
       LET r == ProcessBuffer(buffer \o SubSeq(wire, pos + 1, pos + n), notesByPR, decoded)
       IN /\ pos' = pos + n
          /\ buffer' = r.buffer
          /\ notesByPR' = r.notes
          /\ decoded' = r.decoded
  /\ UNCHANGED <<cpc, error, isGeneratingNotes>>
  /\ UNCHANGED <<srvVars, reqVars, redVars, mrgVars, fltVars, decVars, conVars>>

\* reader.read() returns done: break, then finally
ClientEnd ==
  /\ cpc = "reading" /\ writerState = "closed" /\ pos = Len(wire)
  /\ cpc' = "done"
  /\ isGeneratingNotes' = FALSE
  /\ UNCHANGED <<pos, buffer, notesByPR, error, decoded>>
  /\ UNCHANGED <<srvVars, reqVars, redVars, mrgVars, fltVars, decVars, conVars>>

\* reader.read() rejects: catch (e) { setError(e.message) }, then finally
ClientReadThrows ==
  /\ cpc = "reading" /\ pc = "done" /\ writerState # "errored"
  /\ cpc' = "failed"
  /\ error' = <<readErrorMessage>>
  /\ isGeneratingNotes' = FALSE
  /\ UNCHANGED <<pos, buffer, notesByPR, decoded>>
  /\ UNCHANGED <<srvVars, reqVars, redVars, mrgVars, fltVars, decVars, conVars>>

\* the state after setIsGeneratingNotes(true), setError(null) and a
\* response that is ok, with its reader
InitClient ==
  /\ cpc = "reading" /\ pos = 0 /\ buffer = <<>> /\ notesByPR = EmptyNotes
  /\ error = <<>> /\ isGeneratingNotes = TRUE /\ decoded = <<>>

(***************************************************************************)
(* Idle parts: what a specification leaves alone                           *)
(***************************************************************************)
SrvIdle ==
  /\ relevantPRs = <<>> /\ pc = "idle" /\ idx = 0 /\ wire = <<>> /\ frames = <<>>
  /\ requests = <<>> /\ genLog = <<>> /\ writerState = "none" /\ budget = 0
  /\ failure = <<>> /\ writerLog = <<>>
\* the request is not modelled: the Response carrying the stream was returned
ReqAccepted == body = <<>> /\ status = 200
ReqIdle == body = <<>> /\ status = 0
FltIdle ==
  /\ fltPr = <<>> /\ fltPrs = <<>> /\ fltFilter = <<>> /\ fltVariant = <<>>
  /\ fltOut = <<>>
CliIdle ==
  /\ cpc = "idle" /\ pos = 0 /\ buffer = <<>> /\ notesByPR = EmptyNotes
  /\ error = <<>> /\ isGeneratingNotes = FALSE /\ decoded = <<>>
RedIdle == applied = <<>> /\ notesHist = <<>> /\ prevAfter = <<>>
DecIdle == records = <<>>
ConIdle ==
  /\ isLoading = FALSE /\ nextPage = 0 /\ closureIds = {} /\ clicked = 0
  /\ streams = <<>> /\ writes = <<>>
MrgIdle == mPrev = <<>> /\ mFrag = <<>> /\ mOut = <<>>

(***************************************************************************)
(* SpecMerge: mergeWithOverlap on every pair of short strings              *)
(***************************************************************************)
MergeAlphabet == {"a", "b"}
MergeInputs == SeqsUpTo(MergeAlphabet, MaxLen)

InitMerge ==
  /\ SrvIdle /\ ReqIdle /\ CliIdle /\ RedIdle /\ DecIdle /\ ConIdle /\ FltIdle
  /\ mPrev \in MergeInputs /\ mFrag \in MergeInputs
  /\ mOut = <<>>

\* one call of each version of the function; mOut holds both results
CallMerge ==
  /\ mOut = <<>>
  /\ mOut' = <<mergeWithOverlap(mPrev, mFrag), mergeWithOverlapV0(mPrev, mFrag)>>
  /\ UNCHANGED <<srvVars, reqVars, cliVars, redVars, fltVars, mPrev, mFrag, decVars, conVars>>

NextMerge == CallMerge
SpecMerge == InitMerge /\ [][NextMerge]_vars

(***************************************************************************)
(* SpecReducer: the reducer applied to any short sequence of frames        *)
(***************************************************************************)
ReducerIds == {<<"1">>, <<"2">>}
ReducerSections == {developer, marketing}
ReducerAlphabet == {"a", "b"}
\* longest fragment carried by a content frame given to the reducer
MaxFragLen == 2
ReducerFragments == SeqsUpTo(ReducerAlphabet, MaxFragLen)
ToolsInfos == {"T1", "T2"}

InitReducer ==
  /\ SrvIdle /\ ReqIdle /\ CliIdle /\ RedIdle /\ DecIdle /\ ConIdle /\ MrgIdle /\ FltIdle

\* what applying payload p does to the reducer state and its history
Applying(p) ==
  /\ notesByPR' = ApplyPayload(notesByPR, p)
  /\ applied' = Append(applied, p)
  /\ notesHist' = Append(notesHist, notesByPR)
  /\ prevAfter' = Append(prevAfter, ApplyPayloadPrev(notesByPR, p))

ApplyContentFrame ==
  /\ Len(applied) < MaxApply
  /\ \E id \in ReducerIds, sec \in ReducerSections, c \in ReducerFragments :
       Applying(ContentPayload(id, sec, c))
  /\ UNCHANGED <<srvVars, reqVars, mrgVars, fltVars, decVars, conVars>>
  /\ UNCHANGED <<cpc, pos, buffer, error, isGeneratingNotes, decoded>>

ApplyDoneFrame ==
  /\ Len(applied) < MaxApply
  /\ \E id \in ReducerIds, sec \in ReducerSections : Applying(DonePayload(id, sec))
  /\ UNCHANGED <<srvVars, reqVars, mrgVars, fltVars, decVars, conVars>>
  /\ UNCHANGED <<cpc, pos, buffer, error, isGeneratingNotes, decoded>>

ApplyToolsFrame ==
  /\ Len(applied) < MaxApply
  /\ \E id \in ReducerIds, t \in ToolsInfos : Applying(ToolsPayload(id, t))
  /\ UNCHANGED <<srvVars, reqVars, mrgVars, fltVars, decVars, conVars>>
  /\ UNCHANGED <<cpc, pos, buffer, error, isGeneratingNotes, decoded>>

NextReducer == ApplyContentFrame \/ ApplyDoneFrame \/ ApplyToolsFrame
SpecReducer == InitReducer /\ [][NextReducer]_vars

\* the reducer state after the i-th applied frame
StateAfter(i) == IF i < Len(applied) THEN notesHist[i + 1] ELSE notesByPR

IsContent(p) == p.done = <<>> /\ p.type = <<>> /\ p.section # <<>>
IsDone(p) == p.done = <<TRUE>>
IsTools(p) == p.type = <<toolsType>> /\ p.tools # <<>> /\ p.done = <<>>

(***************************************************************************)
(* SpecRelevant: isRelevantPR on short descriptions, short diffs and small *)
(* policies, some of whose entries have upper-case letters                 *)
(***************************************************************************)
\* longest description given to isRelevantPR
MaxDescLen == 2
\* most lines of a diff given to isRelevantPR
MaxDiffLines == 3

RECURSIVE JoinNL(_)
JoinNL(lines) ==
  IF lines = <<>> THEN <<>>
  ELSE IF Len(lines) = 1 THEN lines[1]
  ELSE lines[1] \o <<NL>> \o JoinNL(Tail(lines))

RelDescAlphabet == {"x", "X", "l", "i"}
RelDescriptions == SeqsUpTo(RelDescAlphabet, MaxDescLen)
RelDiffLines == {<<"+", "a">>, <<SP, "a">>}
RelDiffs == {JoinNL(ls) : ls \in SeqsUpTo(RelDiffLines, MaxDiffLines) \ {<<>>}}
RelFilters ==
  [minDiffSize : {1, 3},
   minCodeChanges : {0, 2},
   excludePatterns : {<<>>, << <<"x">> >>, << <<"X">> >>},
   excludeLabels : {<<>>, << <<"l">> >>},
   includeLabels : {<<>>, << <<"i">> >>, << <<"I">>, <<"l", "l">> >>}]

InitRelevant ==
  /\ SrvIdle /\ ReqIdle /\ CliIdle /\ RedIdle /\ DecIdle /\ ConIdle /\ MrgIdle
  /\ \E d \in RelDescriptions, df \in RelDiffs :
       fltPr = [id |-> <<"1">>, description |-> d, diff |-> df]
  /\ fltFilter \in RelFilters
  /\ fltVariant \in Variants
  /\ fltPrs = <<>> /\ fltOut = <<>>

CallIsRelevantPR ==
  /\ fltOut = <<>>
  /\ fltOut' = IF fltVariant = "conservative"
               THEN <<isRelevantPR(fltPr, fltFilter)>>
               ELSE <<isRelevantPR_permissive(fltPr, fltFilter)>>
  /\ UNCHANGED <<srvVars, reqVars, cliVars, redVars, mrgVars, decVars, conVars>>
  /\ UNCHANGED <<fltPr, fltPrs, fltFilter, fltVariant>>

NextRelevant == CallIsRelevantPR
SpecRelevant == InitRelevant /\ [][NextRelevant]_vars

(***************************************************************************)
(* SpecFilterPRs: filterPRs, each version under its own DEFAULT_FILTERS,   *)
(* on lists of items that pass both policies, only the permissive one, or  *)
(* neither                                                                 *)
(***************************************************************************)
\* most items of a list given to filterPRs
MaxPrs == 7

PrKinds ==
  {[description |-> desc_fix, diff |-> diffTenLines],
   [description |-> desc_fix, diff |-> diffFourLines],
   [description |-> desc_docs, diff |-> diffTenLines]}

\* the lists of n items, the i-th with the i-th id
PrLists(n) ==
  {[i \in 1..n |-> [id |-> <<PrIdChars[i]>>, description |-> ks[i].description,
                    diff |-> ks[i].diff]] :
     ks \in [1..n -> PrKinds]}

FiltersOf(variant) ==
  IF variant = "conservative" THEN DEFAULT_FILTERS ELSE DEFAULT_FILTERS_permissive

InitFilterPRs ==
  /\ SrvIdle /\ ReqIdle /\ CliIdle /\ RedIdle /\ DecIdle /\ ConIdle /\ MrgIdle
  /\ \E n \in 0..MaxPrs : fltPrs \in PrLists(n)
  /\ fltVariant \in Variants
  /\ fltFilter = FiltersOf(fltVariant)
  /\ fltPr = <<>> /\ fltOut = <<>>

\* filter and slice return new arrays: the list given is left as it is
CallFilterPRs ==
  /\ fltOut = <<>>
  /\ fltOut' = IF fltVariant = "conservative"
               THEN <<filterPRs(fltPrs, fltFilter)>>
               ELSE <<filterPRs_permissive(fltPrs, fltFilter)>>
  /\ fltPrs' = fltPrs
  /\ UNCHANGED <<srvVars, reqVars, cliVars, redVars, mrgVars, decVars, conVars>>
  /\ UNCHANGED <<fltPr, fltFilter, fltVariant>>

NextFilterPRs == CallFilterPRs
SpecFilterPRs == InitFilterPRs /\ [][NextFilterPRs]_vars

(***************************************************************************)
(* SpecCount: countMeaningfulChanges, in both versions, on every short     *)
(* diff over the characters its rules look at and on a few longer lines    *)
(***************************************************************************)
\* longest diff, in characters, drawn character by character
MaxDiffLen == 5

DiffAlphabet == {"+", "-", SP, "/", "*", "a", NL}
\* lines the two extra rules of the permissive version look for
DiffSamples ==
  {<<"+", "v", "e", "r", "s", "i", "o", "n", SP, "2">>,
   <<"-", "V", "1", ".", "2", "0", ".", "3", NL, "+", "a">>,
   <<"+", "v", "1", ".", "2", NL, "+", "a">>,
   <<"+", "d", "e", "v", "D", "e", "p", "e", "n", "d", "e", "n", "c", "i", "e", "s">>}
DiffTexts == SeqsUpTo(DiffAlphabet, MaxDiffLen) \cup DiffSamples

InitCount ==
  /\ SrvIdle /\ ReqIdle /\ CliIdle /\ RedIdle /\ DecIdle /\ ConIdle /\ MrgIdle
  /\ \E d \in DiffTexts : fltPr = [id |-> <<"1">>, description |-> <<>>, diff |-> d]
  /\ fltVariant \in Variants
  /\ fltPrs = <<>> /\ fltFilter = <<>> /\ fltOut = <<>>

CallCountMeaningfulChanges ==
  /\ fltOut = <<>>
  /\ fltOut' = IF fltVariant = "conservative"
               THEN <<countMeaningfulChanges(fltPr.diff)>>
               ELSE <<countMeaningfulChanges_permissive(fltPr.diff)>>
  /\ UNCHANGED <<srvVars, reqVars, cliVars, redVars, mrgVars, decVars, conVars>>
  /\ UNCHANGED <<fltPr, fltPrs, fltFilter, fltVariant>>

NextCount == CallCountMeaningfulChanges
SpecCount == InitCount /\ [][NextCount]_vars

(***************************************************************************)
(* Spec: the streaming loop of one request, on its own                     *)
(***************************************************************************)
Init ==
  InitServer(MaxItems, MaxFrags) /\ ReqAccepted /\ CliIdle /\ RedIdle /\ DecIdle /\ ConIdle /\ MrgIdle /\ FltIdle

Next == ServerStep

Spec == Init /\ [][Next]_vars

(***************************************************************************)
(* SpecLive: the streaming loop under fair scheduling.  Every await of the *)
(* loop settles: a generation request resolves or rejects, a generation    *)
(* stream delivers a fragment, ends or throws, and a write resolves or     *)
(* rejects, so a step of the loop that is possible is eventually taken.    *)
(* The consumer going away is not a step of the loop and is not forced.    *)
(***************************************************************************)
LoopStep ==
  \/ RequestDeveloper \/ SendDeveloperOpen \/ DeveloperChunk \/ DeveloperStreamThrows
  \/ SendDeveloperDone \/ RequestMarketing \/ SendMarketingOpen \/ MarketingChunk
  \/ MarketingStreamThrows \/ SendMarketingDone \/ InnerCatch \/ OuterCatch
  \/ LoopEnds \/ Finally

SpecLive == Init /\ [][Next]_vars /\ WF_vars(LoopStep)

(***************************************************************************)
(* SpecRequest: one call of POST, from the request body to the end of the  *)
(* streaming loop                                                          *)
(***************************************************************************)
InitRequestSpec == InitRequest /\ CliIdle /\ RedIdle /\ DecIdle /\ ConIdle /\ MrgIdle /\ FltIdle

NextRequest == RequestStep \/ ServerStep

SpecRequest == InitRequestSpec /\ [][NextRequest]_vars

(***************************************************************************)
(* SpecClient: one request from the start of the streaming loop to the end *)
(* of the client's read loop.  The client's reads are taken once the loop  *)
(* has ended: what a reader is given does not depend on when it reads, and *)
(* every boundary between two chunks remains possible.                     *)
(***************************************************************************)
InitClientSpec ==
  InitServer(MaxItemsClient, MaxFragsClient) /\ ReqAccepted /\ InitClient /\ RedIdle /\ DecIdle /\ ConIdle
  /\ MrgIdle /\ FltIdle

ClientStep == ClientRead \/ ClientEnd \/ ClientReadThrows

NextClient == ServerStep \/ ClientStep

SpecClient == InitClientSpec /\ [][NextClient]_vars

(***************************************************************************)
(* SpecDecoder: the read loop of generateNotes given a response body made  *)
(* of any short list of records, well-formed or not, cut into any chunks   *)
(***************************************************************************)
\* most records a response body is made of
MaxRecords == 3

\* a record the decoder applies: what send() writes, without the separator
FrameRecord(p) ==
  [text |-> dataPrefix \o JSONStringify(p), payload |-> <<p>>]
\* a record the decoder has nothing to apply from
SkippedRecord(text) == [text |-> text, payload |-> <<>>]

\* the record sendError() writes: its first line is the event line, so the
\* record does not start with the data: marker
errorRecord ==
  SkippedRecord(eventErrorLine \o dataPrefix \o JSONStringify(ErrorPayload(<<"E">>)))
\* a data: record whose payload JSON.parse rejects
badJsonRecord == SkippedRecord(dataPrefix \o <<"{", QUOTE, "p">>)
\* a data: record with nothing after the marker
emptyPayloadRecord == SkippedRecord(dataPrefix)
\* a comment line that keeps its line end, so that three newlines are in a row
commentRecord == SkippedRecord(<<":", NL>>)

RecordKinds ==
  { FrameRecord(ContentPayload(<<"1">>, developer, <<"a">>)),
    FrameRecord(ContentPayload(<<"1">>, developer, <<"b">>)),
    errorRecord, badJsonRecord, emptyPayloadRecord, commentRecord }

\* the response body: every record followed by the separator
RECURSIVE BodyText(_)
BodyText(recs) ==
  IF recs = <<>> THEN <<>> ELSE Head(recs).text \o <<NL, NL>> \o BodyText(Tail(recs))

\* the server has written the whole body and closed the stream
InitDecoder ==
  /\ records \in SeqsUpTo(RecordKinds, MaxRecords)
  /\ wire = BodyText(records)
  /\ relevantPRs = <<>> /\ pc = "done" /\ idx = 0 /\ frames = <<>>
  /\ requests = <<>> /\ genLog = <<>> /\ writerState = "closed" /\ budget = 0
  /\ failure = <<>> /\ writerLog = <<>>
  /\ ReqAccepted /\ InitClient /\ RedIdle /\ ConIdle /\ MrgIdle /\ FltIdle

NextDecoder == ClientRead \/ ClientEnd

SpecDecoder == InitDecoder /\ [][NextDecoder]_vars

(***************************************************************************)
(* SpecConcurrent: the page's click handlers, fetchDiffs and the           *)
(* generateNotes invocations they start.  fetchDiffs does not await        *)
(* generateNotes, and the buttons are disabled by isLoading alone, so a    *)
(* click is possible while earlier invocations still read their streams.   *)
(* A handler sees the notesByPR of the render it was created in; every     *)
(* setNotesByPR updater is applied to the latest state.                    *)
(***************************************************************************)
\* most generateNotes invocations that get a stream
MaxStreams == 2
\* most content frames delivered, over all streams
MaxWrites == 3

\* what /api/sample-diffs returns: data.diffs (as ids) and data.nextPage
PageDiffs(page) == IF page = 1 THEN << <<"1">>, <<"2">> >> ELSE << <<"3">> >>
NextPageOf(page) == IF page = 1 THEN 2 ELSE 0

fetchErrorMessage == <<"F">>
noNewPRsMessage == <<"N">>
\* the content of a content frame: empty in an open frame
ConcurrentFragments == {<<>>, <<"a">>}

\* handleFetchClick: fetchDiffs(1) up to its await
FetchClick ==
  /\ ~isLoading /\ Len(streams) < MaxStreams
  /\ isLoading' = TRUE /\ error' = <<>>
  /\ clicked' = 1 /\ closureIds' = DOMAIN notesByPR
  /\ UNCHANGED <<nextPage, streams, writes, notesByPR, isGeneratingNotes>>
  /\ UNCHANGED <<cpc, pos, buffer, decoded>>
  /\ UNCHANGED <<srvVars, reqVars, redVars, mrgVars, fltVars, decVars>>

\* handleLoadMoreClick: if (nextPage) fetchDiffs(nextPage), up to its await
LoadMoreClick ==
  /\ ~isLoading /\ nextPage # 0 /\ Len(streams) < MaxStreams
  /\ isLoading' = TRUE /\ error' = <<>>
  /\ clicked' = nextPage /\ closureIds' = DOMAIN notesByPR
  /\ UNCHANGED <<nextPage, streams, writes, notesByPR, isGeneratingNotes>>
  /\ UNCHANGED <<cpc, pos, buffer, decoded>>
  /\ UNCHANGED <<srvVars, reqVars, redVars, mrgVars, fltVars, decVars>>

\* fetchDiffs: the response is not ok or an await rejects; catch, finally
FetchFails ==
  /\ isLoading
  /\ error' = <<fetchErrorMessage>>
  /\ isLoading' = FALSE /\ clicked' = 0
  /\ UNCHANGED <<nextPage, closureIds, streams, writes, notesByPR, isGeneratingNotes>>
  /\ UNCHANGED <<cpc, pos, buffer, decoded>>
  /\ UNCHANGED <<srvVars, reqVars, redVars, mrgVars, fltVars, decVars>>

\* const newPRs = page === 1 ? data.diffs : data.diffs.filter(d => !notesByPR[d.id])
NewPRs(page) ==
  IF page = 1 THEN PageDiffs(page)
  ELSE SelectSeq(PageDiffs(page), LAMBDA d : d \notin closureIds)

\* generateNotes: const pending = diffs.filter(d => !notesByPR[d.id]) (the
\* ids of one page are distinct, so the second filter removes nothing)
Pending(diffs) == SelectSeq(diffs, LAMBDA d : d \notin closureIds)

\* an invocation that has sent its request and reads the response
NewStream(pending) ==
  [pending |-> pending, at |-> 1, section |-> developer, reading |-> TRUE]

\* fetchDiffs after its awaits, with generateNotes(newPRs) up to its first
\* await, then finally { setIsLoading(false) }
FetchReturns ==
  /\ isLoading
  /\ nextPage' = NextPageOf(clicked)
  /\ LET pending == Pending(NewPRs(clicked))
     IN IF pending = <<>>
        THEN /\ error' = IF NewPRs(clicked) = <<>> THEN error ELSE <<noNewPRsMessage>>
             /\ UNCHANGED <<streams, isGeneratingNotes>>
        ELSE /\ streams' = Append(streams, NewStream(pending))
             /\ isGeneratingNotes' = TRUE /\ error' = <<>>
  /\ isLoading' = FALSE /\ clicked' = 0
  /\ UNCHANGED <<closureIds, writes, notesByPR>>
  /\ UNCHANGED <<cpc, pos, buffer, decoded>>
  /\ UNCHANGED <<srvVars, reqVars, redVars, mrgVars, fltVars, decVars>>

Reading(n) == streams[n].reading /\ streams[n].at <= Len(streams[n].pending)

\* the read loop of invocation n handles a content frame of the item and
\* channel its stream is at
StreamDelivers ==
  /\ Len(writes) < MaxWrites
  /\ \E n \in DOMAIN streams, c \in ConcurrentFragments :
       /\ Reading(n)
       /\ LET id == streams[n].pending[streams[n].at]
          IN /\ notesByPR' = ContentUpdate(notesByPR, id, streams[n].section, c)
             /\ writes' = Append(writes, [stream |-> n, prId |-> id,
                                          section |-> streams[n].section])
  /\ UNCHANGED <<isLoading, nextPage, closureIds, clicked, streams, error, isGeneratingNotes>>
  /\ UNCHANGED <<cpc, pos, buffer, decoded>>
  /\ UNCHANGED <<srvVars, reqVars, redVars, mrgVars, fltVars, decVars>>

\* the read loop of invocation n handles a completion frame: the stream
\* goes on with the marketing channel, or with the next item
StreamAdvances ==
  /\ \E n \in DOMAIN streams :
       /\ Reading(n)
       /\ streams' = [streams EXCEPT ![n] =
            IF @.section = developer THEN [@ EXCEPT !.section = marketing]
            ELSE [@ EXCEPT !.section = developer, !.at = @ + 1]]
  /\ UNCHANGED <<isLoading, nextPage, closureIds, clicked, writes, notesByPR, error,
                 isGeneratingNotes>>
  /\ UNCHANGED <<cpc, pos, buffer, decoded>>
  /\ UNCHANGED <<srvVars, reqVars, redVars, mrgVars, fltVars, decVars>>

\* reader.read() of invocation n returns done: break, finally
StreamEnds ==
  /\ \E n \in DOMAIN streams :
       /\ streams[n].reading /\ streams[n].at > Len(streams[n].pending)
       /\ streams' = [streams EXCEPT ![n].reading = FALSE]
  /\ isGeneratingNotes' = FALSE
  /\ UNCHANGED <<isLoading, nextPage, closureIds, clicked, writes, notesByPR, error>>
  /\ UNCHANGED <<cpc, pos, buffer, decoded>>
  /\ UNCHANGED <<srvVars, reqVars, redVars, mrgVars, fltVars, decVars>>

InitConcurrent ==
  /\ SrvIdle /\ ReqIdle /\ CliIdle /\ RedIdle /\ DecIdle /\ MrgIdle /\ FltIdle
  /\ ConIdle

NextConcurrent ==
  \/ FetchClick \/ LoadMoreClick \/ FetchFails \/ FetchReturns
  \/ StreamDelivers \/ StreamAdvances \/ StreamEnds

SpecConcurrent == InitConcurrent /\ [][NextConcurrent]_vars

(***************************************************************************)
(* Properties                                                              *)
(***************************************************************************)
IsErrorFrame(f) == f.p.message # <<>>
IsDoneFrame(f, sec) == f.p.done = <<TRUE>> /\ f.p.section = <<sec>>
IsContentFrame(f, sec) == f.p.done = <<>> /\ f.p.section = <<sec>> /\ f.p.content # <<>>
IsOpenFrame(f, sec) == IsContentFrame(f, sec) /\ f.p.content = << <<>> >>
IsTextFrame(f, sec) == IsContentFrame(f, sec) /\ f.p.content # << <<>> >>

\* the frames that carry the id of item n, in the order written
FramesOfItem(n) ==
  SelectSeq(frames, LAMBDA f : ~IsErrorFrame(f) /\ f.p.prId = <<relevantPRs[n]>>)

\* where the frames fs leave the per-item order when read from stage st:
\* 0 nothing yet, 1 developer open, 2 developer closed, 3 marketing open,
\* 4 marketing closed, -1 out of order
RECURSIVE StageAfter(_, _)
StageAfter(fs, st) ==
  IF fs = <<>> \/ st = -1 THEN st
  ELSE LET f == Head(fs)
       IN StageAfter(Tail(fs),
            IF st = 0 /\ IsOpenFrame(f, developer) THEN 1
            ELSE IF st = 1 /\ IsTextFrame(f, developer) THEN 1
            ELSE IF st = 1 /\ IsDoneFrame(f, developer) THEN 2
            ELSE IF st = 2 /\ IsOpenFrame(f, marketing) THEN 3
            ELSE IF st = 3 /\ IsTextFrame(f, marketing) THEN 3
            ELSE IF st = 3 /\ IsDoneFrame(f, marketing) THEN 4
            ELSE -1)

\* C1: for every item, its frames are, in order, the developer open frame,
\* developer content frames, the developer completion frame, the marketing
\* open frame, marketing content frames, the marketing completion frame (a
\* prefix of that while the item is in progress or after it failed, all of
\* it once the loop has moved past the item); no marketing frame precedes
\* the developer completion frame, and a channel has at most one completion
\* frame, with no content frame of the channel after it.
C1_ItemFrameOrder ==
  \A n \in 1..Len(relevantPRs) :
    LET fs == FramesOfItem(n)
    IN /\ StageAfter(fs, 0) # -1
       /\ n < idx => StageAfter(fs, 0) = 4
       /\ \A i, j \in 1..Len(fs) :
            /\ (fs[i].p.section = <<marketing>> /\ IsDoneFrame(fs[j], developer)) => j < i
            /\ \A sec \in {developer, marketing} :
                 /\ (IsDoneFrame(fs[i], sec) /\ IsDoneFrame(fs[j], sec)) => i = j
                 /\ (IsDoneFrame(fs[i], sec) /\ IsContentFrame(fs[j], sec)) => j < i

\* two items written in full, with text in both channels of an item
C1_Witness ==
  /\ pc = "done" /\ failure = <<>> /\ writerState = "closed"
  /\ Len(relevantPRs) = 2
  /\ \E i, j \in 1..Len(frames) :
       /\ frames[i].item = frames[j].item
       /\ IsTextFrame(frames[i], developer) /\ IsTextFrame(frames[j], marketing)

IsMarketingDoneOf(f, n) == f.item = n /\ ~IsErrorFrame(f) /\ IsDoneFrame(f, marketing)

\* C2: items are handled one after another in list order: every frame and
\* every generation request of item n+1 comes after the marketing
\* completion frame of item n, so the frames of two items never interleave.
C2_ItemsSequential ==
  /\ \A i, j \in 1..Len(frames) :
       (i < j /\ ~IsErrorFrame(frames[i]) /\ ~IsErrorFrame(frames[j])) =>
         frames[i].item <= frames[j].item
  /\ \A j \in 1..Len(frames) :
       (~IsErrorFrame(frames[j]) /\ frames[j].item > 1) =>
         \E i \in 1..(j - 1) : IsMarketingDoneOf(frames[i], frames[j].item - 1)
  /\ \A r \in 1..Len(requests) :
       requests[r].item > 1 =>
         \E i \in 1..requests[r].at : IsMarketingDoneOf(frames[i], requests[r].item - 1)
  /\ \A r, q \in 1..Len(requests) : r < q => requests[r].item <= requests[q].item

\* the second item has been requested and written after the first one
C2_Witness ==
  /\ \E r \in 1..Len(requests) : requests[r].item = 2 /\ requests[r].section = marketing
  /\ \E j \in 1..Len(frames) : IsMarketingDoneOf(frames[j], 2)

ErrorFramePositions == {i \in 1..Len(frames) : IsErrorFrame(frames[i])}

\* C3: after a failed step the stream carries exactly one error frame, and
\* no frame follows it: the error frames written never number more than
\* one, an error frame is the last frame, and a loop that ended after a
\* failure with the writer still open to the end wrote one.
C3_SingleErrorFrameLast ==
  /\ Cardinality(ErrorFramePositions) <= 1
  /\ \A i \in ErrorFramePositions : i = Len(frames)
  /\ (pc = "done" /\ failure # <<>> /\ writerState = "closed") =>
       Cardinality(ErrorFramePositions) = 1

\* C4: when an error frame was written, the client has decoded it and its
\* error state is set once its read loop has ended, and what it accumulated
\* from the frames before the error frame is still there.
C4_ErrorFrameSurfaced ==
  (cpc = "done" /\ ErrorFramePositions # {}) =>
    /\ error # <<>>
    /\ \E i \in 1..Len(decoded) : decoded[i].message # <<>>

\* C5: every record on the wire is data: <json> and a blank line, and the
\* client, whatever the chunk boundaries, decodes exactly the frames
\* written, in order.
C5_CodecRoundTrip ==
  /\ wire = <<>> \/ StartsWith(wire, dataPrefix)
  /\ \A i \in 1..(Len(wire) - 2) :
       (wire[i] = NL /\ wire[i + 1] = NL) => StartsWith(SubSeq(wire, i + 2, Len(wire)), dataPrefix)
  /\ cpc = "done" => decoded = [i \in 1..Len(frames) |-> frames[i].p]

\* the fragments delivered for item n and channel sec, concatenated
RECURSIVE ConcatFragments(_, _, _)
ConcatFragments(log, n, sec) ==
  IF log = <<>> THEN <<>>
  ELSE (IF Head(log).item = n /\ Head(log).section = sec THEN Head(log).content ELSE <<>>)
       \o ConcatFragments(Tail(log), n, sec)

\* C6: after a stream that ended without an error, the client holds, for
\* every item and channel, the concatenation of the fragments the
\* generation capability delivered for it.
C6_LosslessReconstruction ==
  (cpc = "done" /\ failure = <<>>) =>
    \A n \in 1..Len(relevantPRs) : \A sec \in {developer, marketing} :
      FieldOf(notesByPR, relevantPRs[n], IF sec = developer THEN "developer" ELSE "marketing")
        = <<ConcatFragments(genLog, n, sec)>>

\* the overlaps of prev and fragment: every k, 0 included, such that the
\* last k characters of prev are the first k characters of fragment
Overlaps(prev, fragment) ==
  {k \in 0..Min(Len(prev), Len(fragment)) :
     SubSeq(prev, Len(prev) - k + 1, Len(prev)) = SubSeq(fragment, 1, k)}
LargestOverlap(prev, fragment) ==
  CHOOSE k \in Overlaps(prev, fragment) : \A j \in Overlaps(prev, fragment) : j <= k
MergeByLargestOverlap(prev, fragment) ==
  prev \o SubSeq(fragment, LargestOverlap(prev, fragment) + 1, Len(fragment))

Str_ab == <<"a","b">>
Str_bc == <<"b","c">>
Str_abc == <<"a","b","c">>
Str_x == <<"x">>
Str_xyz == <<"x","y","z">>
Str_abcxyz == <<"a","b","c","x","y","z">>
Str_hello_wor == <<"h","e","l","l","o"," ","w","o","r">>
Str_world == <<"w","o","r","l","d","!">>
Str_hello_world == <<"h","e","l","l","o"," ","w","o","r","l","d","!">>
Str_cache1 == <<"T","h","e"," ","c","a","c","h","e"," ","i","s"," ">>
Str_cache2 == <<"i","s"," ","n","o","w"," ","f","a","s","t","e","r",".">>
Str_cache12 ==
  <<"T","h","e"," ","c","a","c","h","e"," ","i","s"," ","n","o","w"," ","f","a","s","t","e","r",".">>

\* C7: for all strings prev and fragment, mergeWithOverlap(prev, fragment) is
\* prev followed by fragment without its first k characters, k the largest
\* overlap of the two (0 when there is none or one of them is empty), in both
\* versions of the function; and the listed examples evaluate as stated.
C7_MergeLargestOverlap ==
  /\ mOut # <<>> =>
       /\ mOut[1] = MergeByLargestOverlap(mPrev, mFrag)
       /\ mOut[2] = MergeByLargestOverlap(mPrev, mFrag)
       /\ (mPrev = <<>> \/ mFrag = <<>>) => LargestOverlap(mPrev, mFrag) = 0
  /\ mergeWithOverlap(Str_ab, Str_bc) = Str_abc
  /\ mergeWithOverlap(<<>>, Str_x) = Str_x
  /\ mergeWithOverlap(Str_x, <<>>) = Str_x
  /\ mergeWithOverlap(Str_abc, Str_xyz) = Str_abcxyz
  /\ mergeWithOverlap(Str_hello_wor, Str_world) = Str_hello_world
  /\ mergeWithOverlap(Str_cache1, Str_cache2) = Str_cache12

\* a call whose operands overlap in two different non-zero lengths
C7_Witness ==
  /\ mOut # <<>>
  /\ Cardinality(Overlaps(mPrev, mFrag)) >= 3
  /\ Len(mOut[1]) < Len(mPrev) + Len(mFrag)

\* the text a channel holds, "" when the item or the field is absent
TextOf(notes, id, sec) ==
  LET f == FieldOf(notes, id, IF sec = developer THEN "developer" ELSE "marketing")
  IN IF f = <<>> THEN <<>> ELSE f[1]

\* positions i such that frames i and i+1 are content frames of one channel
ContentPairs ==
  {i \in 1..(Len(applied) - 1) :
     /\ IsContent(applied[i]) /\ IsContent(applied[i + 1])
     /\ applied[i].prId = applied[i + 1].prId
     /\ applied[i].section = applied[i + 1].section}

MergedFrame(i) ==
  ContentPayload(applied[i].prId[1], applied[i].section[1],
                 mergeWithOverlap(applied[i].content[1], applied[i + 1].content[1]))

\* neither overlap reaches past the first fragment a (or a is empty)
OverlapsWithinFirst(i) ==
  LET s == TextOf(notesHist[i], applied[i].prId[1], applied[i].section[1])
      a == applied[i].content[1]
      b == applied[i + 1].content[1]
  IN \/ a = <<>>
     \/ /\ LargestOverlap(MergeByLargestOverlap(s, a), b) <= Len(a)
        /\ LargestOverlap(s, MergeByLargestOverlap(a, b)) <= Len(a)

\* C8 as stated: two content frames a then b on one channel give the state
\* that the single content frame merge(a, b) gives.
C8_TwoFramesAsOneMerged ==
  \A i \in ContentPairs :
    StateAfter(i + 1) = ApplyPayload(notesHist[i], MergedFrame(i))

\* C8 amended: the same, provided a is empty or neither the overlap of
\* merge(s, a) with b nor the overlap of s with merge(a, b) is longer than a.
C8_TwoFramesAsOneMergedWithinFirst ==
  \A i \in ContentPairs :
    OverlapsWithinFirst(i) =>
      StateAfter(i + 1) = ApplyPayload(notesHist[i], MergedFrame(i))

\* accumulated text, then two overlapping non-empty fragments within the proviso
C8_Witness ==
  \E i \in ContentPairs :
    /\ OverlapsWithinFirst(i)
    /\ TextOf(notesHist[i], applied[i].prId[1], applied[i].section[1]) # <<>>
    /\ applied[i].content[1] # <<>>
    /\ LargestOverlap(applied[i].content[1], applied[i + 1].content[1]) >= 1
    /\ LargestOverlap(TextOf(notesHist[i], applied[i].prId[1], applied[i].section[1]),
                      applied[i].content[1]) >= 1

\* C9: a completion frame leaves the whole reducer state unchanged, whether
\* or not the item has an entry.
C9_DoneFrameChangesNothing ==
  \A i \in 1..Len(applied) : IsDone(applied[i]) => StateAfter(i) = notesHist[i]

\* a completion frame for an item with text, and one for an item with no entry
C9_Witness ==
  /\ \E i \in 1..Len(applied) :
       /\ IsDone(applied[i])
       /\ TextOf(notesHist[i], applied[i].prId[1], applied[i].section[1]) # <<>>
  /\ \E i \in 1..Len(applied) :
       /\ IsDone(applied[i])
       /\ applied[i].prId[1] \notin DOMAIN notesHist[i]

\* C10: a tools frame sets the item's tools field to the frame's ToolsInfo,
\* keeps the item's developer and marketing text, and leaves every other
\* item's NoteState (and the set of other items) as it was.
C10_ToolsFrameEffect ==
  \A i \in 1..Len(applied) :
    IsTools(applied[i]) =>
      LET id == applied[i].prId[1]
          before == notesHist[i]
          after == StateAfter(i)
      IN /\ id \in DOMAIN after
         /\ after[id].tools = applied[i].tools
         /\ FieldOf(after, id, "developer") = FieldOf(before, id, "developer")
         /\ FieldOf(after, id, "marketing") = FieldOf(before, id, "marketing")
         /\ DOMAIN after \ {id} = DOMAIN before \ {id}
         /\ \A k \in DOMAIN before \ {id} : after[k] = before[k]

\* a tools frame replacing an earlier, different ToolsInfo of an item with text
C10_Witness ==
  \E i \in 1..Len(applied) :
    /\ IsTools(applied[i])
    /\ FieldOf(notesHist[i], applied[i].prId[1], "tools") \notin {<<>>, applied[i].tools}
    /\ TextOf(notesHist[i], applied[i].prId[1], developer) # <<>>

IsPrefix(a, b) == Len(a) <= Len(b) /\ SubSeq(b, 1, Len(a)) = a

\* C11: text only grows: for every applied frame, every item and channel,
\* the text held before the frame is a prefix of the text held after it
\* (an item or channel holding nothing yet counts as the empty text), and no
\* item leaves the NoteState map.
C11_TextOnlyGrows ==
  \A i \in 1..Len(applied) :
    /\ DOMAIN notesHist[i] \subseteq DOMAIN StateAfter(i)
    /\ \A id \in ReducerIds, sec \in ReducerSections :
         IsPrefix(TextOf(notesHist[i], id, sec), TextOf(StateAfter(i), id, sec))

\* a content frame whose fragment overlaps the text held and extends it, and
\* a content frame whose fragment has nothing in common with the text held
C11_Witness ==
  /\ \E i \in 1..Len(applied) :
       /\ IsContent(applied[i])
       /\ LET before == TextOf(notesHist[i], applied[i].prId[1], applied[i].section[1])
              after == TextOf(StateAfter(i), applied[i].prId[1], applied[i].section[1])
          IN /\ before # <<>>
             /\ LargestOverlap(before, applied[i].content[1]) >= 1
             /\ Len(after) > Len(before)
  /\ \E i \in 1..Len(applied) :
       /\ IsContent(applied[i])
       /\ LET before == TextOf(notesHist[i], applied[i].prId[1], applied[i].section[1])
          IN /\ before # <<>>
             /\ applied[i].content[1] # <<>>
             /\ LargestOverlap(before, applied[i].content[1]) = 0

\* the version's countMeaningfulChanges applied to the diff of fltPr
CountOfVariant(diff) ==
  IF fltVariant = "conservative" THEN countMeaningfulChanges(diff)
  ELSE countMeaningfulChanges_permissive(diff)

\* text contains entry, letter case ignored on both sides
ContainsIgnoringCase(text, entry) ==
  \E i \in 0..(Len(text) - Len(entry)) :
    \A k \in 1..Len(entry) : ToLowerChar(text[i + k]) = ToLowerChar(entry[k])
AnyIgnoringCase(entries, text) ==
  \E i \in 1..Len(entries) : ContainsIgnoringCase(text, entries[i])

\* the lower-cased text contains the entry as the policy spells it
AnyAsSpelled(entries, text) ==
  \E i \in 1..Len(entries) : Includes(ToLowerCase(text), entries[i])

\* C12 as stated: isRelevantPR is true exactly when the lower-cased
\* description contains no excludePatterns entry, the diff has at least
\* minDiffSize lines, countMeaningfulChanges is at least minCodeChanges, the
\* description contains no excludeLabels entry, and includeLabels is empty or
\* the description contains one of its entries (entries taken as spelled).
C12_RelevantExactlyWhenAsSpelled ==
  fltOut # <<>> =>
    (fltOut[1] <=>
       /\ ~AnyAsSpelled(fltFilter.excludePatterns, fltPr.description)
       /\ Len(SplitNL(fltPr.diff)) >= fltFilter.minDiffSize
       /\ CountOfVariant(fltPr.diff) >= fltFilter.minCodeChanges
       /\ ~AnyAsSpelled(fltFilter.excludeLabels, fltPr.description)
       /\ \/ fltFilter.includeLabels = <<>>
          \/ AnyAsSpelled(fltFilter.includeLabels, fltPr.description))

\* C12: isRelevantPR is true exactly when, containment being tested with
\* letter case ignored on both sides, the description contains no
\* excludePatterns entry, the diff has at least minDiffSize lines,
\* countMeaningfulChanges is at least minCodeChanges, the description
\* contains no excludeLabels entry, and includeLabels is empty or the
\* description contains one of its entries; so an excluded pattern rejects
\* whatever the diff, and so does an exclude label beside an include label.
C12_RelevantExactlyWhen ==
  fltOut # <<>> =>
    /\ fltOut[1] <=>
         /\ ~AnyIgnoringCase(fltFilter.excludePatterns, fltPr.description)
         /\ Len(SplitNL(fltPr.diff)) >= fltFilter.minDiffSize
         /\ CountOfVariant(fltPr.diff) >= fltFilter.minCodeChanges
         /\ ~AnyIgnoringCase(fltFilter.excludeLabels, fltPr.description)
         /\ \/ fltFilter.includeLabels = <<>>
            \/ AnyIgnoringCase(fltFilter.includeLabels, fltPr.description)
    /\ AnyIgnoringCase(fltFilter.excludePatterns, fltPr.description) => ~fltOut[1]
    /\ (/\ AnyIgnoringCase(fltFilter.includeLabels, fltPr.description)
        /\ AnyIgnoringCase(fltFilter.excludeLabels, fltPr.description)) => ~fltOut[1]

\* an item that passes the pattern, size and count rules and matches both an
\* include label and an exclude label has been rejected
C12_Witness ==
  /\ fltOut = <<FALSE>>
  /\ ~AnyIgnoringCase(fltFilter.excludePatterns, fltPr.description)
  /\ fltFilter.excludePatterns # <<>>
  /\ Len(SplitNL(fltPr.diff)) >= fltFilter.minDiffSize
  /\ CountOfVariant(fltPr.diff) >= fltFilter.minCodeChanges
  /\ fltFilter.minCodeChanges > 0
  /\ AnyIgnoringCase(fltFilter.includeLabels, fltPr.description)
  /\ AnyIgnoringCase(fltFilter.excludeLabels, fltPr.description)

\* the version's isRelevantPR
RelevantInVariant(pr) ==
  IF fltVariant = "conservative" THEN isRelevantPR(pr, fltFilter)
  ELSE isRelevantPR_permissive(pr, fltFilter)

\* the positions of the relevant items of the list given
RelevantPositions == {i \in 1..Len(fltPrs) : RelevantInVariant(fltPrs[i])}

\* the k-th position of rel, counted from the start of the list
NthOf(rel, k) == CHOOSE i \in rel : Cardinality({j \in rel : j <= i}) = k

FilterPRsResult ==
  fltOut # <<>> =>
    LET out == fltOut[1]
        rel == RelevantPositions
        r == Cardinality(rel)
    IN /\ Len(out) = (IF fltVariant = "conservative" THEN Min(5, r) ELSE r)
       /\ \A k \in 1..Len(out) : out[k] = fltPrs[NthOf(rel, k)]

\* C13: filterPRs returns the relevant items of its input in input order,
\* the first min(5, r) of them in the conservative version and all r of them
\* in the permissive version, and the call leaves the input list as it was.
C13_FilterPRsSubsequence ==
  /\ []FilterPRsResult
  /\ [][fltPrs' = fltPrs]_vars

\* the conservative version has dropped a sixth relevant item of a list whose
\* first item is not relevant
C13_Witness ==
  /\ fltOut # <<>> /\ fltVariant = "conservative"
  /\ Cardinality(RelevantPositions) > 5
  /\ Len(fltOut[1]) = 5
  /\ 1 \notin RelevantPositions

\* the added and removed lines of a diff, in order
ChangedLines(diff) == SelectSeq(SplitNL(diff), IsChangedLine)

\* the text of a changed line after its marker and optional whitespace
\* begins with // or /*
IsCommentLine(line) ==
  LET text == TrimStart(Tail(line))
  IN StartsWith(text, lineComment) \/ StartsWith(text, blockComment)

\* C14: comment lines are not counted: the count is at most the number of
\* added or removed lines that are not comment lines, so a diff whose changed
\* lines are all comment lines has a count of 0.
C14_CommentLinesNotCounted ==
  fltOut # <<>> =>
    fltOut[1] <= Len(SelectSeq(ChangedLines(fltPr.diff), LAMBDA l : ~IsCommentLine(l)))

\* a changed line is its marker followed only by whitespace
IsWhitespaceOnlyChange(line) == \A k \in 2..Len(line) : line[k] \in Whitespace

\* C15: a diff whose added and removed lines are all a marker followed only
\* by whitespace has a count of 0, and context lines never contribute: the
\* count of a diff is the count of its added and removed lines alone.
C15_WhitespaceOnlyCountsZero ==
  fltOut # <<>> =>
    /\ (\A k \in 1..Len(ChangedLines(fltPr.diff)) :
          IsWhitespaceOnlyChange(ChangedLines(fltPr.diff)[k])) => fltOut[1] = 0
    /\ fltOut[1] = CountOfVariant(JoinNL(ChangedLines(fltPr.diff)))
    /\ fltOut[1] <= Len(ChangedLines(fltPr.diff))

\* a diff with a changed line made of its marker and whitespace, and with a
\* context line that has text, has been counted as 0
C15_Witness ==
  /\ fltOut = <<0>>
  /\ \E k \in 1..Len(ChangedLines(fltPr.diff)) :
       /\ Len(ChangedLines(fltPr.diff)[k]) > 1
       /\ IsWhitespaceOnlyChange(ChangedLines(fltPr.diff)[k])
  /\ \E k \in 1..Len(SplitNL(fltPr.diff)) :
       /\ ~IsChangedLine(SplitNL(fltPr.diff)[k])
       /\ Trim(SplitNL(fltPr.diff)[k]) # <<>>

\* the body cannot be parsed, or does not carry a list of diff items
MalformedBody == JsonThrows \/ FilterThrows

\* no stream was opened, nothing was written, nothing was requested
NothingStreamed ==
  /\ writerState = "none" /\ writerLog = <<>> /\ wire = <<>> /\ frames = <<>>
  /\ requests = <<>> /\ genLog = <<>>

\* C16: a request whose body is malformed, or whose items all fail the
\* filter, is answered with status 400 and nothing is streamed; status 500
\* is not the answer to either.
C16_BadRequestAnswered400 ==
  (/\ status # 0
   /\ IF MalformedBody THEN TRUE
      ELSE filterPRs(body[1].diffs[1].elems, DEFAULT_FILTERS) = <<>>) =>
    (status = 400 /\ NothingStreamed)

\* the positions of the calls of writer.close()
ClosePositions == {i \in 1..Len(writerLog) : writerLog[i] = "close"}

\* C17: the writer is closed exactly once on every path of the streaming
\* loop: never while the loop is running, once when it has ended, however it
\* ended, and writer.write is never called after writer.close.
C17_ClosedExactlyOnce ==
  /\ Cardinality(ClosePositions) = (IF pc = "done" THEN 1 ELSE 0)
  /\ \A i \in ClosePositions : i = Len(writerLog)

\* the loop has ended after a write was rejected and both error frames were
\* rejected as well; and the close was called
C17_Witness ==
  /\ pc = "done" /\ failure # <<>> /\ failure[1].step = "write"
  /\ writerState = "errored"
  /\ ~\E i \in 1..Len(frames) : IsErrorFrame(frames[i])
  /\ Len(writerLog) >= 4 /\ writerLog[Len(writerLog)] = "close"

\* C18: once a step has failed, no generation request is issued, no fragment
\* is taken from the generation capability, and every frame written is an
\* error frame: nothing more for the failed item's remaining channel, nothing
\* for the items after it.
C18_NothingAfterFailure ==
  [][failure # <<>> =>
       /\ requests' = requests
       /\ genLog' = genLog
       /\ Len(frames') >= Len(frames)
       /\ SubSeq(frames', 1, Len(frames)) = frames
       /\ \A i \in (Len(frames) + 1)..Len(frames') : IsErrorFrame(frames'[i])]_vars

\* the loop has ended after the developer stream of the first of two items
\* threw: an error frame was written, the marketing channel of the first item
\* and the second item were never started
C18_Witness ==
  /\ pc = "done" /\ Len(relevantPRs) = 2
  /\ failure # <<>> /\ failure[1].item = 1 /\ failure[1].step = "stream"
  /\ \E i \in 1..Len(frames) : IsErrorFrame(frames[i])
  /\ \A i \in 1..Len(requests) : requests[i].item = 1 /\ requests[i].section = developer
  /\ \A i \in 1..Len(frames) : ~IsErrorFrame(frames[i]) => frames[i].p.section = <<developer>>

\* the frame names the item with id `id`: in its prId field or in its message
NamesItem(f, id) ==
  \/ f.p.prId = <<id>>
  \/ f.p.message # <<>> /\ Includes(f.p.message[1], id)

\* C19: every error frame on the stream carries the id of the item whose
\* step failed.
C19_ErrorFrameNamesItem ==
  \A i \in 1..Len(frames) :
    IsErrorFrame(frames[i]) =>
      /\ failure # <<>>
      /\ NamesItem(frames[i], relevantPRs[failure[1].item])

\* the fragments delivered for channel sec of the n-th item, in order
FragmentsOf(n, sec) ==
  LET gs == SelectSeq(genLog, LAMBDA g : g.item = n /\ g.section = sec)
  IN [i \in 1..Len(gs) |-> gs[i].content]

NonEmpty(texts) == SelectSeq(texts, LAMBDA t : t # <<>>)

\* the contents of the content frames written for channel sec of the n-th
\* item after its open frame
ContentsAfterOpen(n, sec) ==
  LET fs == SelectSeq(frames, LAMBDA f : f.item = n /\ IsContentFrame(f, sec))
  IN [i \in 1..(Len(fs) - 1) |-> fs[i + 1].p.content[1]]

ChannelDone(n, sec) ==
  \E i \in 1..Len(frames) : frames[i].item = n /\ IsDoneFrame(frames[i], sec)

Channels == (1..Len(relevantPRs)) \X {developer, marketing}

\* C20 as stated: for a channel whose completion frame is written, the
\* content frames after the open frame carry, one to one and in order, the
\* fragments delivered for that channel.
C20_FrameForEveryFragment ==
  \A ch \in Channels :
    ChannelDone(ch[1], ch[2]) => ContentsAfterOpen(ch[1], ch[2]) = FragmentsOf(ch[1], ch[2])

\* C20: the content frames after the open frame carry, one to one and in
\* order, the fragments delivered for that channel that are not empty; a
\* fragment with no text gets no frame.  While the channel is open they are
\* a prefix of those fragments.
C20_FrameForEveryNonEmptyFragment ==
  \A ch \in Channels :
    /\ IsPrefix(ContentsAfterOpen(ch[1], ch[2]), NonEmpty(FragmentsOf(ch[1], ch[2])))
    /\ ChannelDone(ch[1], ch[2]) =>
         ContentsAfterOpen(ch[1], ch[2]) = NonEmpty(FragmentsOf(ch[1], ch[2]))

\* a completed channel for which a fragment with no text and two different
\* fragments with text were delivered
C20_Witness ==
  \E ch \in Channels :
    /\ ChannelDone(ch[1], ch[2])
    /\ Len(FragmentsOf(ch[1], ch[2])) = 3
    /\ Len(ContentsAfterOpen(ch[1], ch[2])) = 2
    /\ ContentsAfterOpen(ch[1], ch[2])[1] # ContentsAfterOpen(ch[1], ch[2])[2]

\* the open frame of channel sec of the n-th item is among the first k frames
OpenFrameWithin(n, sec, k) ==
  \E j \in 1..k : frames[j].item = n /\ IsOpenFrame(frames[j], sec)

\* C21: when the generation capability is asked for a channel's stream, the
\* channel's open frame is already written; so it is on the stream whenever
\* the request fails.
C21_OpenFrameBeforeRequest ==
  \A i \in 1..Len(requests) :
    OpenFrameWithin(requests[i].item, requests[i].section, requests[i].at)

\* the channels requested for the n-th item, in the order requested
RequestedFor(n) ==
  LET rs == SelectSeq(requests, LAMBDA r : r.item = n)
  IN [i \in 1..Len(rs) |-> rs[i].section]

\* C22: the generation capability is asked at most once per item and
\* channel: an item whose marketing completion frame is written has caused
\* exactly the developer request and then the marketing request, the item
\* that failed at most these two, an item after the failed one none.
C22_OneRequestPerChannel ==
  \A n \in 1..Len(relevantPRs) :
    /\ RequestedFor(n) \in {<<>>, <<developer>>, <<developer, marketing>>}
    /\ ChannelDone(n, marketing) => RequestedFor(n) = <<developer, marketing>>
    /\ (failure # <<>> /\ n > failure[1].item) => RequestedFor(n) = <<>>

\* the loop has ended: the first item is complete after two requests, the
\* marketing request of the second item failed, and it was not made again
C22_Witness ==
  /\ pc = "done" /\ Len(relevantPRs) = 2
  /\ ChannelDone(1, marketing)
  /\ failure # <<>> /\ failure[1].item = 2 /\ failure[1].step = "mktRequest"
  /\ Len(requests) = 4

\* the requests whose stream is open: nothing has failed (a failure is the
\* request's own, or abandons the stream being read) and the channel's
\* completion frame, written once the stream is exhausted, is not yet there
OpenStreams ==
  {i \in 1..Len(requests) :
     failure = <<>> /\ ~ChannelDone(requests[i].item, requests[i].section)}

\* C23: at most one generation stream is open at any time, and the marketing
\* stream of an item is requested only when the item's developer completion
\* frame is written.
C23_SingleSequentialProducer ==
  /\ Cardinality(OpenStreams) <= 1
  /\ \A i \in 1..Len(requests) :
       requests[i].section = marketing =>
         \E j \in 1..requests[i].at :
           frames[j].item = requests[i].item /\ IsDoneFrame(frames[j], developer)

\* the marketing stream of the second item is the one open stream, a
\* fragment of it has been delivered, three streams were exhausted before
C23_Witness ==
  /\ pc = "mktStream" /\ idx = 2 /\ Len(requests) = 4
  /\ Cardinality(OpenStreams) = 1
  /\ FragmentsOf(2, marketing) # <<>>

\* the records whose separator is within the first n characters of the body
RECURSIVE CompleteRecords(_, _)
CompleteRecords(recs, n) ==
  IF recs = <<>> \/ Len(Head(recs).text) + 2 > n THEN <<>>
  ELSE <<Head(recs)>> \o CompleteRecords(Tail(recs), n - Len(Head(recs).text) - 2)

\* the payloads of the well-formed records among recs, in order
RECURSIVE PayloadsOf(_)
PayloadsOf(recs) ==
  IF recs = <<>> THEN <<>> ELSE Head(recs).payload \o PayloadsOf(Tail(recs))

\* the reducer applied to payloads ps in order, from state notes
RECURSIVE ApplyAll(_, _)
ApplyAll(notes, ps) ==
  IF ps = <<>> THEN notes ELSE ApplyAll(ApplyPayload(notes, Head(ps)), Tail(ps))

IsMalformed(rec) == rec.payload = <<>>

\* C24: a complete record that is malformed (no data: marker, an empty
\* payload, a payload that does not parse) is skipped: the payloads decoded
\* are those of the well-formed records that are complete in the text
\* received, in arrival order whatever the chunks, the note states are what
\* applying exactly those gives, no error is set, and the read loop ends
\* only once the whole body was read.
C24_MalformedRecordSkipped ==
  LET expected == PayloadsOf(CompleteRecords(records, pos))
  IN /\ decoded = expected
     /\ notesByPR = ApplyAll(EmptyNotes, expected)
     /\ error = <<>>
     /\ cpc \in {"reading", "done"}
     /\ cpc = "done" => pos = Len(wire)

\* a body with a well-formed record, then one with a payload that does not
\* parse, then a well-formed record, read to its end
C24_Witness ==
  /\ cpc = "done" /\ Len(records) = 3
  /\ ~IsMalformed(records[1]) /\ records[2] = badJsonRecord /\ ~IsMalformed(records[3])
  /\ records[1] # records[3]
  /\ decoded = records[1].payload \o records[3].payload

\* what is left of text once every separator in it, taken from left to right,
\* and the record before it are removed
RECURSIVE AfterLastSeparator(_)
AfterLastSeparator(text) ==
  LET hits == {i \in 1..(Len(text) - 1) : text[i] = NL /\ text[i + 1] = NL}
  IN IF hits = {} THEN text
     ELSE AfterLastSeparator(SubSeq(text, (CHOOSE i \in hits : \A j \in hits : i <= j) + 2,
                                    Len(text)))

HasSeparator(text) == \E i \in 1..(Len(text) - 1) : text[i] = NL /\ text[i + 1] = NL

\* C25: after each chunk has been processed the buffer holds no separator
\* and is exactly the text received so far after its last separator
\* (separators taken from left to right), so no record a chunk completed is
\* left in the buffer for a later chunk.
C25_BufferInvariant ==
  /\ ~HasSeparator(buffer)
  /\ buffer = AfterLastSeparator(SubSeq(wire, 1, pos))

\* the text received ends one character after the first separator: the
\* first record was extracted and the buffer holds the start of the second
C25_Witness ==
  /\ Len(records) >= 2 /\ ~IsMalformed(records[1])
  /\ pos = Len(records[1].text) + 2 + 1
  /\ Len(decoded) = 1
  /\ buffer = SubSeq(records[2].text, 1, 1)

\* the reducer states a duplicate frame is tried on: the current one and
\* every state with one item holding one short text
DuplicateTrialStates ==
  {notesByPR} \cup
  { ApplyPayload(EmptyNotes, ContentPayload(id, sec, t)) :
      id \in ReducerIds, sec \in ReducerSections, t \in SeqsUpTo(ReducerAlphabet, MaxLen) }

\* applying content frame p to notes twice gives another text than once
DuplicateChangesText(notes, p) ==
  LET once == ApplyPayload(notes, p)
      twice == ApplyPayload(once, p)
  IN TextOf(twice, p.prId[1], p.section[1]) # TextOf(once, p.prId[1], p.section[1])

\* C26: the reducer is not idempotent across duplicate frames: there are a
\* reducer state and a content frame such that applying the frame twice in
\* succession gives a different accumulated text than applying it once.
C26_NotIdempotentAcrossDuplicates ==
  \E notes \in DuplicateTrialStates :
    \E id \in ReducerIds, sec \in ReducerSections, c \in ReducerFragments :
      DuplicateChangesText(notes, ContentPayload(id, sec, c))

\* C27: the reducer is a pure functional update: once a content frame has
\* been applied, the mapping that was passed in, and in it the NoteState of
\* the frame's item, still have the developer and marketing text they had
\* before the call.
C27_InputUntouched ==
  \A i \in 1..Len(applied) :
    IsContent(applied[i]) =>
      /\ DOMAIN prevAfter[i] = DOMAIN notesHist[i]
      /\ \A id \in DOMAIN notesHist[i], sec \in ReducerSections :
           TextOf(prevAfter[i], id, sec) = TextOf(notesHist[i], id, sec)

OtherSection(sec) == IF sec = developer THEN marketing ELSE developer

\* C30: applying a content frame for (prId, section) changes nothing but
\* that item's text for that section: the text of the item's other channel,
\* its tools field and the NoteState of every other item are as before.
C30_ChannelIsolation ==
  \A i \in 1..Len(applied) :
    IsContent(applied[i]) =>
      LET before == notesHist[i]
          after == StateAfter(i)
          id == applied[i].prId[1]
          sec == applied[i].section[1]
      IN /\ TextOf(after, id, OtherSection(sec)) = TextOf(before, id, OtherSection(sec))
         /\ FieldOf(after, id, "tools") = FieldOf(before, id, "tools")
         /\ DOMAIN after = DOMAIN before \cup {id}
         /\ \A k \in DOMAIN before \ {id} : after[k] = before[k]

\* a content frame changed the text of one channel of an item whose other
\* channel held text, while another item had a NoteState
C30_Witness ==
  /\ Len(applied) = 3 /\ IsContent(applied[3])
  /\ LET before == notesHist[3]
         id == applied[3].prId[1]
         sec == applied[3].section[1]
     IN /\ TextOf(before, id, OtherSection(sec)) # <<>>
        /\ TextOf(notesByPR, id, sec) # TextOf(before, id, sec)
        /\ DOMAIN before \ {id} # {}

WriterClosed == pc = "done" /\ writerState = "closed"

\* the stream ends with the marketing completion frame of the last accepted
\* item, and every accepted item has both of its completion frames
StreamComplete ==
  /\ frames # <<>>
  /\ LET last == frames[Len(frames)]
     IN IsDoneFrame(last, marketing) /\ last.p.prId = <<relevantPRs[Len(relevantPRs)]>>
  /\ \A n \in 1..Len(relevantPRs) : \A sec \in {developer, marketing} :
       \E k \in 1..Len(frames) :
         IsDoneFrame(frames[k], sec) /\ frames[k].p.prId = <<relevantPRs[n]>>

\* C28: with generation streams that are finite or fail, and a consumer that
\* keeps reading (the stream is never cancelled), the streaming loop
\* eventually reaches the state where the writer is closed; and when the
\* writer is closed with no step having failed, the last frame written is the
\* marketing completion frame of the last accepted item and every accepted
\* item has both completion frames on the stream.
C28_Termination ==
  [](writerState # "errored") =>
    /\ <>WriterClosed
    /\ [](WriterClosed /\ failure = <<>> => StreamComplete)

\* the loop went through two items without a failure and closed the writer
C28_Witness ==
  /\ WriterClosed /\ failure = <<>> /\ Len(relevantPRs) = 2
  /\ Len(frames) > 8

\* the ids invocation n will still deliver frames for
Remaining(n) ==
  IF streams[n].reading
  THEN {streams[n].pending[k] : k \in streams[n].at..Len(streams[n].pending)}
  ELSE {}

\* a text that took a content frame of one stream between two content
\* frames of another
Interleaved ==
  \E i, j, k \in DOMAIN writes :
    /\ i < j /\ j < k
    /\ writes[i].prId = writes[j].prId /\ writes[j].prId = writes[k].prId
    /\ writes[i].section = writes[j].section /\ writes[j].section = writes[k].section
    /\ writes[i].stream = writes[k].stream /\ writes[i].stream # writes[j].stream

\* C29: a PR id is never written by two note-generation streams at once:
\* no two invocations that are reading have an id both will still deliver
\* frames for, and no (id, channel) text takes fragments of two streams in
\* turn.
C29_OneStreamPerId ==
  /\ \A m, n \in DOMAIN streams : m # n => Remaining(m) \cap Remaining(n) = {}
  /\ ~Interleaved

====
